---- MODULE Spec2Model ----
(***************************************************************************)
(* Model of the remote-document sync of the "nda" Electron application:   *)
(* the 'sync-remote-documents' IPC handler of main.js (fetchManifest,      *)
(* compareFiles, downloadFile, updateCacheWithFile, cache persistence),    *)
(* the two other handlers that use the cache file ('get-cached-documents', *)
(* 'scan-documents'), and the renderer's entry points (refreshDocuments,   *)
(* loadDocuments, syncWithServer) that guard the sync with the isSyncing   *)
(* flag. A handler is one action per stretch of code between two awaits,   *)
(* so that the handlers interleave where the event loop lets them.         *)
(*                                                                         *)
(* Representation.                                                         *)
(*  - A file name is a sequence of one-character strings, so that          *)
(*    generateDisplayName can be computed character by character; Str      *)
(*    joins it into the string the code builds paths and ids from.         *)
(*  - An instant is an integer counting half days from 2025-12-26T00:00Z.  *)
(*    Timestamps are kept as the strings the code stores; DateParse is     *)
(*    `new Date(s).getTime()` on those strings, NaN for an Invalid Date.   *)
(*  - UNDEF stands for the JavaScript value undefined, which is also what  *)
(*    reading an absent property yields; JSON.stringify drops such a       *)
(*    property and JSON.parse gives it back as absent, so a record read    *)
(*    from the cache file has UNDEF exactly where it had it when written.  *)
(***************************************************************************)
EXTENDS Integers, Sequences, FiniteSets, TLC

\* ------------------------------------------------------------------------
\* Bounds of the model
\* ------------------------------------------------------------------------
\* number of renderer call chains (user actions) that can be in flight
MaxCalls == 2
\* the last instant of the wall clock, which starts one instant earlier
MaxNow == 3

\* ------------------------------------------------------------------------
\* Program constants
\* ------------------------------------------------------------------------
SERVER_BASE_URL == "http://192.168.1.9:8000"
MANIFEST_URL == SERVER_BASE_URL \o "/manifest.json"
appPath == "<app>"
CACHE_FILE == appPath \o "/data/cache.json"

UNDEF == "undefined"
NaN == -1

Categories == {"gcf", "policy"}

\* ------------------------------------------------------------------------
\* Strings
\* ------------------------------------------------------------------------
LowerChars == <<"a","b","c","d","e","f","g","h","i","j","k","l","m",
                "n","o","p","q","r","s","t","u","v","w","x","y","z">>
UpperChars == <<"A","B","C","D","E","F","G","H","I","J","K","L","M",
                "N","O","P","Q","R","S","T","U","V","W","X","Y","Z">>

toUpperCase(ch) ==
  IF \E i \in 1..26 : LowerChars[i] = ch
  THEN UpperChars[CHOOSE i \in 1..26 : LowerChars[i] = ch]
  ELSE ch

toLowerCase(ch) ==
  IF \E i \in 1..26 : UpperChars[i] = ch
  THEN LowerChars[CHOOSE i \in 1..26 : UpperChars[i] = ch]
  ELSE ch

\* the string made of the characters of cs
RECURSIVE Str(_)
Str(cs) == IF cs = <<>> THEN "" ELSE Head(cs) \o Str(Tail(cs))

\* filename.replace(/\.pdf$/i, '')
StripPdf(cs) ==
  LET n == Len(cs) IN
  IF /\ n >= 4
     /\ cs[n-3] = "."
     /\ toLowerCase(cs[n-2]) = "p"
     /\ toLowerCase(cs[n-1]) = "d"
     /\ toLowerCase(cs[n]) = "f"
  THEN SubSeq(cs, 1, n - 4)
  ELSE cs

\* .replace(/[-_]/g, ' ')
ReplaceSeparators(cs) ==
  [i \in 1..Len(cs) |-> IF cs[i] \in {"-", "_"} THEN " " ELSE cs[i]]

\* .split(' ').map(word => word.charAt(0).toUpperCase() +
\*                         word.slice(1).toLowerCase()).join(' ')
\* Splitting at every space and joining with a space keeps every space in
\* place; the first character of each word is the one at the start or
\* right after a space.
CapitalizeWords(cs) ==
  [i \in 1..Len(cs) |->
     IF i = 1 \/ cs[i-1] = " " THEN toUpperCase(cs[i]) ELSE toLowerCase(cs[i])]

generateDisplayName(filename) ==
  Str(CapitalizeWords(ReplaceSeparators(StripPdf(filename))))

\* (x).toFixed(1) for x = num / den >= 0: the decimal with one fractional
\* digit nearest to x, the larger one on a tie
toFixed1(num, den) ==
  LET tenths == (20 * num + den) \div (2 * den)
  IN ToString(tenths \div 10) \o "." \o ToString(tenths % 10)

formatFileSize(bytes) ==
  IF bytes < 1024 THEN ToString(bytes) \o " B"
  ELSE IF bytes < 1024 * 1024 THEN toFixed1(bytes, 1024) \o " KB"
  ELSE toFixed1(bytes, 1024 * 1024) \o " MB"

\* ------------------------------------------------------------------------
\* Dates
\* ------------------------------------------------------------------------
\* the instants the model can name: two days past the end of the clock
Instants == 0..(MaxNow + 4)

\* 'YYYY-MM-DD' of the day number d (day 0 is 2025-12-26)
DayString(d) ==
  IF d < 6 THEN "2025-12-" \o ToString(26 + d)
  ELSE "2026-01-" \o (IF d - 5 < 10 THEN "0" ELSE "") \o ToString(d - 5)

ClockString(t) == IF t % 2 = 0 THEN "00:00:00" ELSE "12:00:00"

\* date.toISOString()
toISOString(t) == DayString(t \div 2) \o "T" \o ClockString(t) \o ".000Z"

\* the form a manifest uses, e.g. "2025-12-27T12:00:00Z"
ManifestStamp(t) == DayString(t \div 2) \o "T" \o ClockString(t) \o "Z"

\* new Date(s).getTime(): the instant s denotes, NaN for an Invalid Date.
\* undefined, the empty string and text that is no date give an Invalid
\* Date; a date-only string is midnight UTC of that day.
DateParse(s) ==
  IF \E t \in Instants : s \in {toISOString(t), ManifestStamp(t)}
  THEN CHOOSE t \in Instants : s \in {toISOString(t), ManifestStamp(t)}
  ELSE IF \E t \in Instants : t % 2 = 0 /\ s = DayString(t \div 2)
  THEN CHOOSE t \in Instants : t % 2 = 0 /\ s = DayString(t \div 2)
  ELSE NaN

\* a >= b in place of a > b
DateGreaterOrEqual(a, b) == a # NaN /\ b # NaN /\ a >= b

\* a > b on two Dates: false as soon as one of them is invalid
DateGreater(a, b) == a # NaN /\ b # NaN /\ a > b

\* x || y that yields x whatever it is
OrElseFirst(x, y) == x

\* x || y
OrElse(x, y) == IF x \in {UNDEF, ""} THEN y ELSE x

\* ------------------------------------------------------------------------
\* Cache records and the manifest
\* ------------------------------------------------------------------------
EmptyCache == [gcf |-> <<>>, policy |-> <<>>, lastSync |-> UNDEF]

RelativePath(category, name) == category \o "/" \o Str(name)

\* new Map(docs.map(doc => [doc.file, doc])).get(key): a later entry of the
\* array replaces an earlier one with the same key. The index of the record
\* the map yields, 0 when it has none.
MapGet(docs, key) ==
  LET S == {i \in 1..Len(docs) : docs[i].file = key}
  IN IF S = {} THEN 0 ELSE CHOOSE i \in S : \A j \in S : j <= i

\* findIndex with a predicate that compares the record's id
findIndexById(docs, key) ==
  LET S == {i \in 1..Len(docs) : docs[i].id = key}
  IN IF S = {} THEN 0 ELSE CHOOSE i \in S : \A j \in S : i <= j

\* docs.findIndex(doc => doc.file === key), 0 for -1
findIndex(docs, key) ==
  LET S == {i \in 1..Len(docs) : docs[i].file = key}
  IN IF S = {} THEN 0 ELSE CHOOSE i \in S : \A j \in S : i <= j

\* localCache.<category> || []: the records of the category, none when the
\* cache object has no such array
localDocs(localCache, category) ==
  IF category \in DOMAIN localCache THEN localCache[category] ELSE <<>>

\* needsDownload without the test of syncStatus
needsDownloadNoRetry(file, docs, category) ==
  LET k == MapGet(docs, RelativePath(category, file.name))
  IN \/ k = 0
     \/ DateGreater(DateParse(file.modified),
                    DateParse(OrElse(docs[k].remoteModified, docs[k].date)))

needsDownload(file, docs, category) ==
  LET k == MapGet(docs, RelativePath(category, file.name))
  IN \/ k = 0
     \/ docs[k].syncStatus = "failed"
     \/ DateGreater(DateParse(file.modified),
                    DateParse(OrElse(docs[k].remoteModified, docs[k].date)))

downloadReason(file, docs, category) ==
  LET k == MapGet(docs, RelativePath(category, file.name))
  IN IF k = 0 THEN "new"
     ELSE IF docs[k].syncStatus = "failed" THEN "retry" ELSE "updated"

DownloadTask(file, docs, category) ==
  [category |-> category,
   name |-> file.name,
   size |-> file.size,
   modified |-> file.modified,
   url |-> SERVER_BASE_URL \o "/docs/" \o category \o "/" \o Str(file.name),
   localPath |-> appPath \o "/docs/" \o category \o "/" \o Str(file.name),
   relativePath |-> RelativePath(category, file.name),
   reason |-> downloadReason(file, docs, category)]

\* manifest.<category>.forEach(file => { if (needsDownload) toDownload.push })
RECURSIVE checkFiles(_, _, _)
checkFiles(files, docs, category) ==
  IF files = <<>> THEN <<>>
  ELSE (IF needsDownload(Head(files), docs, category)
        THEN <<DownloadTask(Head(files), docs, category)>>
        ELSE <<>>) \o checkFiles(Tail(files), docs, category)

\* compareFiles without the loop over the policy files
compareFilesGcfOnly(manifest, localCache) ==
  checkFiles(manifest.gcf, localDocs(localCache, "gcf"), "gcf")

\* compareFiles with the policy files checked before the gcf files
compareFilesPolicyFirst(manifest, localCache) ==
  checkFiles(manifest.policy, localDocs(localCache, "policy"), "policy")
    \o checkFiles(manifest.gcf, localDocs(localCache, "gcf"), "gcf")

compareFiles(manifest, localCache) ==
  checkFiles(manifest.gcf, localDocs(localCache, "gcf"), "gcf")
    \o checkFiles(manifest.policy, localDocs(localCache, "policy"), "policy")

\* a comparison that takes out of the cache it was given the records of the
\* files it plans to download
compareFilesCallPruning(manifest, localCache) ==
  LET plan == compareFiles(manifest, localCache)
      unplanned(doc) == \A k \in 1..Len(plan) : plan[k].relativePath # doc.file
  IN [toDownload |-> plan,
      manifest |-> manifest,
      localCache |->
        [category \in DOMAIN localCache |->
           IF category \in {"gcf", "policy"}
           THEN SelectSeq(localCache[category], unplanned)
           ELSE localCache[category]]]

\* The call compareFiles(manifest, localCache) as its caller sees it. The
\* arguments are objects and are passed by reference: the call returns
\* toDownload and leaves in manifest and in localCache what it did to them.
\* The function reads the two arrays of each (map and forEach), builds its
\* lookup maps and its tasks as new objects, and assigns to no property of
\* an argument.
compareFilesCall(manifest, localCache) ==
  [toDownload |-> compareFiles(manifest, localCache),
   manifest |-> manifest,
   localCache |-> localCache]

\* docEntry without the manifest's timestamp
docEntryNoStamp(category, fileInfo, downloadResult) ==
  [id |-> category \o "-" \o Str(fileInfo.name),
   title |-> downloadResult.displayName,
   description |-> "",
   file |-> fileInfo.relativePath,
   size |-> formatFileSize(downloadResult.size),
   date |-> downloadResult.date,
   remoteModified |-> UNDEF,
   syncStatus |-> "success"]

\* the entry updateCacheWithFile builds
docEntry(category, fileInfo, downloadResult) ==
  [id |-> category \o "-" \o Str(fileInfo.name),
   title |-> downloadResult.displayName,
   description |-> "",
   file |-> fileInfo.relativePath,
   size |-> formatFileSize(downloadResult.size),
   date |-> downloadResult.date,
   remoteModified |-> fileInfo.modified,
   syncStatus |-> "success"]

\* upsert that pushes whether or not the file has a record
upsertAppend(categoryArray, fileInfo, entry) ==
  Append(categoryArray, entry)

upsert(categoryArray, fileInfo, entry) ==
  LET existingIndex == findIndex(categoryArray, fileInfo.relativePath)
  IN IF existingIndex > 0
     THEN [categoryArray EXCEPT ![existingIndex] = entry]
     ELSE Append(categoryArray, entry)

\* updateCacheWithFile that returns the cache as it got it
updateCacheSkipped(cache, category, fileInfo, downloadResult) == cache

updateCacheWithFile(cache, category, fileInfo, downloadResult) ==
  IF category \notin DOMAIN cache THEN cache
  ELSE [cache EXCEPT ![category] =
          upsert(cache[category], fileInfo,
                 docEntry(category, fileInfo, downloadResult))]

\* The failure branch of the download loop. new Date(x).toISOString()
\* throws a RangeError when x is no valid date; the entry is built, and so
\* the exception raised, only when the file has no record yet.
placeholderThrows(cache, fileInfo) ==
  /\ findIndex(cache[fileInfo.category], fileInfo.relativePath) = 0
  /\ DateParse(fileInfo.modified) = NaN

placeholderEntry(fileInfo) ==
  [id |-> fileInfo.category \o "-" \o Str(fileInfo.name),
   title |-> generateDisplayName(fileInfo.name),
   description |-> "",
   file |-> fileInfo.relativePath,
   size |-> formatFileSize(fileInfo.size),
   date |-> DayString(DateParse(fileInfo.modified) \div 2),
   remoteModified |-> fileInfo.modified,
   syncStatus |-> "failed"]

markFailed(cache, fileInfo) ==
  LET categoryArray == cache[fileInfo.category]
      existingIndex == findIndex(categoryArray, fileInfo.relativePath)
  IN [cache EXCEPT ![fileInfo.category] =
        IF existingIndex > 0
        THEN [categoryArray EXCEPT ![existingIndex].syncStatus = "failed"]
        ELSE Append(categoryArray, placeholderEntry(fileInfo))]

\* ------------------------------------------------------------------------
\* fetchManifest and downloadFile as functions of what the server answers
\* ------------------------------------------------------------------------
\* fetchManifest validating policy before gcf
fetchManifestPolicyFirst(response) ==
  IF response.error # ""
  THEN [success |-> FALSE, error |-> response.error]
  ELSE IF ~response.ok
  THEN [success |-> FALSE,
        error |-> "Server returned " \o ToString(response.status) \o ": "
                    \o response.statusText]
  ELSE IF ~response.parses
  THEN [success |-> FALSE, error |-> response.parseError]
  ELSE IF response.type # "object"
  THEN [success |-> FALSE, error |-> "Invalid manifest format: not an object"]
  ELSE IF ~response.policyIsArray
  THEN [success |-> FALSE,
        error |-> "Invalid manifest format: policy is not an array"]
  ELSE IF ~response.gcfIsArray
  THEN [success |-> FALSE, error |-> "Invalid manifest format: gcf is not an array"]
  ELSE [success |-> TRUE,
        manifest |-> [gcf |-> response.gcf, policy |-> response.policy]]

\* A response to the manifest request: error is the message of the exception
\* fetch() raised ("" when it raised none), ok/status/statusText are the
\* response's, parses tells whether response.json() yields a value and
\* parseError is the message of the SyntaxError it raises when it does not,
\* type is the value's kind, and gcfIsArray/policyIsArray what Array.isArray
\* says.
fetchManifest(response) ==
  IF response.error # ""
  THEN [success |-> FALSE, error |-> response.error]
  ELSE IF ~response.ok
  THEN [success |-> FALSE,
        error |-> "Server returned " \o ToString(response.status) \o ": "
                    \o response.statusText]
  ELSE IF ~response.parses
  THEN [success |-> FALSE, error |-> response.parseError]
  ELSE IF response.type # "object"
  THEN [success |-> FALSE, error |-> "Invalid manifest format: not an object"]
  ELSE IF ~response.gcfIsArray
  THEN [success |-> FALSE, error |-> "Invalid manifest format: gcf is not an array"]
  ELSE IF ~response.policyIsArray
  THEN [success |-> FALSE,
        error |-> "Invalid manifest format: policy is not an array"]
  ELSE [success |-> TRUE,
        manifest |-> [gcf |-> response.gcf, policy |-> response.policy]]

\* Math.round(x) for the exact quotient x = num / den >= 0
MathRound(num, den) == (2 * num + den) \div (2 * den)

RECURSIVE Sum(_)
Sum(ns) == IF ns = <<>> THEN 0 ELSE Head(ns) + Sum(Tail(ns))

RECURSIVE Pow2(_)
Pow2(n) == IF n = 0 THEN 1 ELSE 2 * Pow2(n - 1)

\* the binary exponent of num / den > 0: the j with 2^j <= num / den < 2^(j+1)
RECURSIVE Exponent(_, _)
Exponent(num, den) ==
  IF num >= 2 * den THEN Exponent(num, 2 * den) + 1
  ELSE IF num < den THEN Exponent(2 * num, den) - 1
  ELSE 0

\* r * 2^n modulo m
RECURSIVE DoubledMod(_, _, _)
DoubledMod(r, m, n) ==
  IF n = 0 THEN r ELSE DoubledMod((2 * r) % m, m, n - 1)

\* Math.round((downloadedBytes / totalBytes) * 100) in the double-precision
\* arithmetic of JavaScript, for totalBytes > 0. The quotient is rounded to
\* 53 significant bits and so is its product with 100. The two roundings
\* move the value by far less than the distance from an exact percentage to
\* the nearest n + 1/2 unless the exact percentage is such an n + 1/2; then
\* Math.round gives n + 1 when the product is n + 1/2 or more, and n when it
\* is below. It is below exactly when the quotient was rounded down (the
\* remainder r of the division to 53 bits is less than half of the divisor)
\* by more than half the distance from n + 1/2 to the double before it.
percent(downloadedBytes, totalBytes) ==
  LET twice == 200 * downloadedBytes
      half == twice % totalBytes = 0 /\ (twice \div totalBytes) % 2 = 1
      n == (twice \div totalBytes) \div 2
      j == Exponent(downloadedBytes, totalBytes)
      num == IF j >= 0 THEN downloadedBytes ELSE downloadedBytes * Pow2(-j)
      den == IF j >= 0 THEN totalBytes * Pow2(j) ELSE totalBytes
      r == DoubledMod(num % den, den, 52)
      k == Exponent(2 * n + 1, 2)
      below == /\ 2 * r < den
               /\ (IF n = 0 THEN 400 * r ELSE 200 * r) > den * Pow2(k - j)
  IN IF ~half THEN MathRound(100 * downloadedBytes, totalBytes)
     ELSE IF below THEN n
     ELSE n + 1

\* the percentages downloadFile passes to onProgress, one per chunk read,
\* when the content-length header gives a total (0 stands for no usable one)
progressOf(response) ==
  IF response.error # "" \/ ~response.ok \/ ~response.body
       \/ response.contentLength = 0
  THEN <<>>
  ELSE [k \in 1..Len(response.chunks) |->
          percent(Sum(SubSeq(response.chunks, 1, k)), response.contentLength)]

\* the message of the error writeFile(fileInfo.localPath, buffer) rejects
\* with: the error of the file system, the call that failed and, for open,
\* the path
writeFileError(fileInfo, response) ==
  IF response.fsCall = "open"
  THEN response.fsError \o ", open '" \o fileInfo.localPath \o "'"
  ELSE response.fsError \o ", " \o response.fsCall

\* A response to a file request: as for the manifest, with body telling
\* whether the response has one (a 204 has none: response.body is null),
\* the chunks the body is read in, readError the message of a failure of
\* the body stream after those chunks ("" for none), fsError and fsCall the
\* error writeFile rejects with ("" for none) and the call of the file
\* system that failed, and written telling whether the file is on disk
\* after writeFile. mdate is the date of the modification time statSync
\* gives for the file written.
downloadFile(fileInfo, response, mdate) ==
  IF response.error # ""
  THEN [success |-> FALSE, error |-> response.error]
  ELSE IF ~response.ok
  THEN [success |-> FALSE,
        error |-> "Server returned " \o ToString(response.status) \o ": "
                    \o response.statusText]
  ELSE IF ~response.body
  THEN [success |-> FALSE,
        error |-> "Cannot read properties of null (reading 'getReader')"]
  ELSE IF response.readError # ""
  THEN [success |-> FALSE, error |-> response.readError]
  ELSE IF response.fsError # ""
  THEN [success |-> FALSE, error |-> writeFileError(fileInfo, response)]
  ELSE IF ~response.written
  THEN [success |-> FALSE, error |-> "File was not written successfully"]
  ELSE [success |-> TRUE,
        size |-> Sum(response.chunks),
        displayName |-> generateDisplayName(fileInfo.name),
        date |-> mdate]

\* ------------------------------------------------------------------------
\* Inputs
\* ------------------------------------------------------------------------
NameA == <<"a", ".", "p", "d", "f">>
NameB == <<"m", "y", "-", "D", "o", "c", ".", "P", "D", "F">>

StampOld == ManifestStamp(1)
StampNew == ManifestStamp(3)
ModifiedValues == {"", "not a date", StampOld, StampNew}

GcfFiles == [name : {NameA}, size : {500}, modified : ModifiedValues]
              \cup [name : {NameB}, size : {500}, modified : {StampNew}]
PolicyFiles == [name : {NameA}, size : {500}, modified : {StampNew}]

GcfLists == {<<>>} \cup {<<f>> : f \in GcfFiles}
              \cup {<<f, g>> : f \in GcfFiles, g \in GcfFiles}
PolicyLists == {<<>>} \cup {<<f>> : f \in PolicyFiles}

Manifests == {m \in [gcf : GcfLists, policy : PolicyLists] :
                Len(m.gcf) + Len(m.policy) <= 2}

NoBody == [parses |-> FALSE, parseError |-> "", type |-> "",
           gcfIsArray |-> FALSE, policyIsArray |-> FALSE,
           gcf |-> <<>>, policy |-> <<>>]

HttpOk(body) == [error |-> "", ok |-> TRUE, status |-> 200,
                 statusText |-> "OK"] @@ body

\* The bodies that are no JSON are an HTML page and the empty body, with the
\* messages JSON.parse gives for them.
BadManifestResponses ==
  { [error |-> "fetch failed", ok |-> FALSE, status |-> 0,
     statusText |-> ""] @@ NoBody,
    [error |-> "The operation was aborted due to timeout", ok |-> FALSE,
     status |-> 0, statusText |-> ""] @@ NoBody,
    [error |-> "", ok |-> FALSE, status |-> 503,
     statusText |-> "Service Unavailable"] @@ NoBody,
    HttpOk([NoBody EXCEPT !.parseError =
              "Unexpected token '<', \"<html>\" is not valid JSON"]),
    HttpOk([NoBody EXCEPT !.parseError = "Unexpected end of JSON input"]),
    HttpOk([NoBody EXCEPT !.parses = TRUE, !.type = "null"]),
    HttpOk([NoBody EXCEPT !.parses = TRUE, !.type = "object",
                          !.policyIsArray = TRUE]),
    HttpOk([NoBody EXCEPT !.parses = TRUE, !.type = "object",
                          !.gcfIsArray = TRUE]),
    HttpOk([NoBody EXCEPT !.parses = TRUE, !.type = "object"]) }

GoodManifestResponses ==
  { HttpOk([parses |-> TRUE, parseError |-> "", type |-> "object",
            gcfIsArray |-> TRUE, policyIsArray |-> TRUE,
            gcf |-> m.gcf, policy |-> m.policy])
      : m \in Manifests }

ManifestResponses == BadManifestResponses \cup GoodManifestResponses

\* a response with a body that is read and written without an error
Body(contentLength, chunks) ==
  [error |-> "", ok |-> TRUE, status |-> 200, statusText |-> "OK",
   body |-> TRUE, contentLength |-> contentLength, chunks |-> chunks,
   readError |-> "", fsError |-> "", fsCall |-> "", written |-> TRUE]

\* The server cannot be reached; it answers 204 without a body; it sends
\* the file, which is written, or cannot be opened for writing (the file or
\* its folder is write-protected: the file on disk stays as it was).
FileResponses ==
  { [Body(0, <<>>) EXCEPT !.error = "fetch failed", !.ok = FALSE,
                          !.status = 0, !.statusText = "", !.body = FALSE,
                          !.written = FALSE],
    [Body(0, <<>>) EXCEPT !.status = 204, !.statusText = "No Content",
                          !.body = FALSE, !.written = FALSE],
    Body(18810, <<9405, 9405>>),
    [Body(18810, <<9405, 9405>>) EXCEPT
        !.fsError = "EACCES: permission denied", !.fsCall = "open",
        !.written = FALSE] }

\* the same, and the device is full when the file is written: writeFile
\* rejects after it has opened the file
FullDeviceResponses ==
  FileResponses
    \cup { [Body(18810, <<9405, 9405>>) EXCEPT
              !.fsError = "ENOSPC: no space left on device",
              !.fsCall = "write", !.written = TRUE] }

\* ------------------------------------------------------------------------
\* State
\* ------------------------------------------------------------------------
\* Renderer call chains (one per user action) and the handler execution each
\* of them started in the main process.
Calls == 1..MaxCalls

VARIABLES
  now,          \* the wall clock
  cacheFile,    \* data/cache.json: [state, data]
  docsPath,     \* the PDFs of the docs folder: [category, name, size, mdate]
  isSyncing,    \* the renderer's flag
  ignored,      \* a sync request was dropped since isSyncing was last set
  rpc,          \* rpc[c]: where the renderer call chain c is
  cachedDocs,   \* cachedDocs[c]: what 'get-cached-documents' returned to c
  scan,         \* scan[c]: where the 'scan-documents' execution of c is
  listing,      \* listing[c]: the PDFs readdir listed for that execution
  documents,    \* documents[c]: the documents that execution has found
  hpc,          \* hpc[c]: where the 'sync-remote-documents' execution of c is
  manifest,     \* manifest[c]: manifestResult.manifest
  cacheData,    \* cacheData[c]: what readFile read of the cache file
  localCache,   \* localCache[c]
  toDownload,   \* toDownload[c]
  idx,          \* idx[c]: i + 1, the task being downloaded
  downloaded,   \* downloaded[c]
  failed,       \* failed[c]
  outcomes,     \* outcomes[c]: downloadResult.success of the tasks resolved
  fileResponse, \* fileResponse[c]: the response downloadFile is reading
  chunks,       \* chunks[c]: the chunks of its body read so far
  result,       \* result[c]: what the handler returned
  events        \* what was sent to the window since the sync started

rendererVars == <<isSyncing, ignored, rpc, cachedDocs>>
scanVars == <<scan, listing, documents>>
localVars == <<manifest, cacheData, localCache, toDownload, idx, downloaded,
               failed, outcomes, fileResponse, chunks>>
handlerVars == <<hpc, manifest, cacheData, localCache, toDownload, idx,
                 downloaded, failed, outcomes, fileResponse, chunks, result,
                 events>>
vars == <<now, cacheFile, docsPath, isSyncing, ignored, rpc, cachedDocs, scan,
          listing, documents, hpc, manifest, cacheData, localCache, toDownload,
          idx, downloaded, failed, outcomes, fileResponse, chunks, result,
          events>>

\* The entry the 'scan-documents' handler builds for a PDF of the docs
\* folder: no remoteModified and no syncStatus. Of the modification time of
\* a file the program reads the date only (mtime.toISOString().split('T')[0]),
\* here and in downloadFile: mdate is that date.
scannedEntry(category, name, size, mdate) ==
  [id |-> category \o "-" \o Str(name),
   title |-> generateDisplayName(name),
   description |-> "",
   file |-> category \o "/" \o Str(name),
   size |-> formatFileSize(size),
   date |-> mdate,
   remoteModified |-> UNDEF,
   syncStatus |-> UNDEF]

\* The cache file at start-up: absent on a fresh installation, or the one a
\* scan of the docs folder wrote before the application synced with a server.
InitialCacheFiles ==
  { [state |-> "missing", data |-> EmptyCache],
    [state |-> "written",
     data |-> [gcf |-> <<scannedEntry("gcf", NameA, 18810, DayString(1))>>,
               policy |-> <<>>, lastSync |-> UNDEF]] }

\* a docs folder with one PDF, docs/gcf/a.pdf
OnePdf == {[category |-> "gcf", name |-> NameA, size |-> 18810,
            mdate |-> DayString(1)]}

\* the docs folder at start-up: it holds the PDF of the records of the file
InitialDocs(file) ==
  IF file.state = "written" /\ "gcf" \in DOMAIN file.data
       /\ file.data.gcf # <<>>
  THEN OnePdf
  ELSE {}

\* the docs folder at start-up when PDFs were put there by hand: it may hold
\* a PDF that no cache file records yet
UserDocs(file) == {InitialDocs(file), OnePdf}

NoManifest == [gcf |-> <<>>, policy |-> <<>>]
NoResult == [stage |-> "none"]
\* downloadFile has no response yet
NoResponse == [error |-> "pending"]
\* no answer of 'get-cached-documents' is held
NoReply == [pending |-> TRUE]
\* the JSON value null
Null == [null |-> TRUE]
NoDocuments == [gcf |-> <<>>, policy |-> <<>>]
\* readFile has read nothing
NoData == [state |-> "unread", data |-> EmptyCache]

\* the application starts over one of these cache files
Launch(files) ==
  /\ now = MaxNow - 1
  /\ cacheFile \in files
  /\ isSyncing = FALSE
  /\ ignored = FALSE
  /\ rpc = [c \in Calls |-> "idle"]
  /\ cachedDocs = [c \in Calls |-> NoReply]
  /\ scan = [c \in Calls |-> "none"]
  /\ listing = [c \in Calls |-> <<>>]
  /\ documents = [c \in Calls |-> NoDocuments]
  /\ hpc = [c \in Calls |-> "none"]
  /\ manifest = [c \in Calls |-> NoManifest]
  /\ cacheData = [c \in Calls |-> NoData]
  /\ localCache = [c \in Calls |-> EmptyCache]
  /\ toDownload = [c \in Calls |-> <<>>]
  /\ idx = [c \in Calls |-> 0]
  /\ downloaded = [c \in Calls |-> 0]
  /\ failed = [c \in Calls |-> 0]
  /\ outcomes = [c \in Calls |-> <<>>]
  /\ fileResponse = [c \in Calls |-> NoResponse]
  /\ chunks = [c \in Calls |-> <<>>]
  /\ result = [c \in Calls |-> NoResult]
  /\ events = <<>>

\* with the docs folder that goes with the cache file
Start(files) == Launch(files) /\ docsPath = InitialDocs(cacheFile)

\* with a docs folder that may hold more than the cache file records
UserStart(files) == Launch(files) /\ docsPath \in UserDocs(cacheFile)

Init == Start(InitialCacheFiles)

UserInit == UserStart(InitialCacheFiles)

\* ------------------------------------------------------------------------
\* The cache file
\* ------------------------------------------------------------------------
\* fs.existsSync(CACHE_FILE)
existsSync(file) == file.state # "missing"

\* Step 2 of the sync handler, the cache it goes on with: JSON.parse of the
\* text readFile read, and the fresh cache when there was no file or the
\* text does not parse
readCache(file) ==
  IF file.state = "written" THEN file.data
  ELSE [gcf |-> <<>>, policy |-> <<>>, lastSync |-> UNDEF]

\* The text of the file is the JSON value null: JSON.parse returns null
\* without an exception, so the handler's localCache is null and
\* compareFiles throws a TypeError on localCache.gcf.
parsesToNull(file) == file.state = "null"

\* What the 'get-cached-documents' handler returns: the parsed file, null
\* included, and { gcf: [], policy: [] } when the file is missing or its text
\* does not parse (an emptied file does not).
cachedDocuments(file) ==
  IF file.state = "written" THEN file.data
  ELSE IF file.state = "null" THEN Null
  ELSE [gcf |-> <<>>, policy |-> <<>>]

\* writeFile has written data from the start of the file. A writer empties
\* the file when it opens it, so the file is not empty at the end of its
\* write only when another writer wrote after that; the text is then the
\* writer's own, followed by what is left of the other's when that was
\* longer, which is no JSON.
afterWrite(file, data) ==
  {[state |-> "written", data |-> data]}
    \cup (IF file.state = "truncated" THEN {}
          ELSE {[state |-> "garbage", data |-> EmptyCache]})

\* ------------------------------------------------------------------------
\* Events and results of the handler
\* ------------------------------------------------------------------------
\* statusEvent with the zero-based index of the loop
statusEventZeroBased(total, current, file) ==
  [channel |-> "sync-status", stage |-> "downloading", total |-> total,
   current |-> current - 1, file |-> file, percent |-> 0]

statusEvent(total, current, file) ==
  [channel |-> "sync-status", stage |-> "downloading", total |-> total,
   current |-> current, file |-> file, percent |-> 0]

\* the events the handler forwards for the chunks of a response
progressEvents(fileInfo, response) ==
  LET ps == progressOf(response)
  IN [k \in 1..Len(ps) |->
        [channel |-> "sync-progress", file |-> Str(fileInfo.name),
         percent |-> ps[k]]]

completeEvent(d, f, total) ==
  [channel |-> "sync-complete", downloaded |-> d, failed |-> f,
   total |-> total]

errorEvent(message) == [channel |-> "sync-error", message |-> message]

\* the manifest failure reported with the stage of the handler's catch
manifestFailureAsError(error) ==
  [success |-> FALSE, stage |-> "error", error |-> error,
   message |-> "Failed to fetch manifest: " \o error]

manifestFailure(error) ==
  [success |-> FALSE, stage |-> "fetch-manifest", error |-> error,
   message |-> "Failed to fetch manifest: " \o error]

\* the result of an empty plan reported as a failure
upToDateFailure ==
  [success |-> FALSE, stage |-> "complete",
   message |-> "All documents are up to date",
   downloaded |-> 0, failed |-> 0, total |-> 0]

upToDate ==
  [success |-> TRUE, stage |-> "complete",
   message |-> "All documents are up to date",
   downloaded |-> 0, failed |-> 0, total |-> 0]

\* the result of a completed sync with the downloaded count as its total
completeDownloadedOnly(d, f, total) ==
  [success |-> TRUE, stage |-> "complete",
   message |-> IF f > 0
               THEN "Synced " \o ToString(d) \o " files, " \o ToString(f)
                      \o " failed. Click refresh to retry."
               ELSE "Successfully synced " \o ToString(d) \o " files",
   downloaded |-> d, failed |-> f, total |-> d]

complete(d, f, total) ==
  [success |-> TRUE, stage |-> "complete",
   message |-> IF f > 0
               THEN "Synced " \o ToString(d) \o " files, " \o ToString(f)
                      \o " failed. Click refresh to retry."
               ELSE "Successfully synced " \o ToString(d) \o " files",
   downloaded |-> d, failed |-> f, total |-> total]

syncError(message) ==
  [success |-> FALSE, stage |-> "error", error |-> message,
   message |-> "Sync failed: " \o message]

\* ------------------------------------------------------------------------
\* Renderer: refreshDocuments, loadDocuments, syncWithServer
\* ------------------------------------------------------------------------
\* the call chain a new user action runs in
FreeCall(c) == rpc[c] = "idle" /\ \A d \in Calls : d < c => rpc[d] # "idle"

\* syncWithServer without its guard
syncWithServerUnguarded(c) ==
  /\ isSyncing' = TRUE
  /\ ignored' = FALSE
  /\ rpc' = [rpc EXCEPT ![c] = "sync"]
  /\ hpc' = [hpc EXCEPT ![c] = "fetch"]
  /\ events' = <<>>
  /\ UNCHANGED <<localVars, result>>

\* syncWithServer() up to its first await: the guard, the flag and the
\* invocation of 'sync-remote-documents', whose handler starts by calling
\* fetchManifest
syncWithServer(c) ==
  IF isSyncing
  THEN /\ ignored' = TRUE
       /\ rpc' = [rpc EXCEPT ![c] = "idle"]
       /\ UNCHANGED <<isSyncing, handlerVars>>
  ELSE /\ isSyncing' = TRUE
       /\ ignored' = FALSE
       /\ rpc' = [rpc EXCEPT ![c] = "sync"]
       /\ hpc' = [hpc EXCEPT ![c] = "fetch"]
       /\ events' = <<>>
       /\ UNCHANGED <<localVars, result>>

\* the user clicks Refresh
refreshDocuments(c) ==
  /\ FreeCall(c)
  /\ IF isSyncing
     THEN /\ ignored' = TRUE
          /\ UNCHANGED <<isSyncing, rpc, handlerVars>>
     ELSE syncWithServer(c)
  /\ UNCHANGED <<now, cacheFile, docsPath, cachedDocs, scanVars>>

\* the user opens the resources page: loadDocuments() up to its await of
\* 'get-cached-documents'
loadDocuments(c) ==
  /\ FreeCall(c)
  /\ rpc' = [rpc EXCEPT ![c] = "load"]
  /\ UNCHANGED <<now, cacheFile, docsPath, isSyncing, ignored, cachedDocs,
                 scanVars, handlerVars>>

\* The 'get-cached-documents' handler runs in the main process for
\* loadDocuments or for syncWithServer: it reads the cache file as it is at
\* that time, and its answer is on its way to the renderer.
getCachedDocuments(c) ==
  /\ rpc[c] \in {"load", "reload"}
  /\ cachedDocs' = [cachedDocs EXCEPT ![c] = cachedDocuments(cacheFile)]
  /\ rpc' = [rpc EXCEPT ![c] = IF rpc[c] = "load" THEN "loaded"
                               ELSE "reloaded"]
  /\ UNCHANGED <<now, cacheFile, docsPath, isSyncing, ignored, scanVars,
                 handlerVars>>

\* allDocuments.gcf.length or allDocuments.policy.length is read of an
\* object without that array: a TypeError, which loadDocuments catches
lengthThrows(allDocuments) ==
  /\ allDocuments # Null
  /\ \/ "gcf" \notin DOMAIN allDocuments
     \/ /\ Len(allDocuments.gcf) = 0
        /\ "policy" \notin DOMAIN allDocuments

\* allDocuments && (allDocuments.gcf.length > 0 ||
\*                  allDocuments.policy.length > 0), when nothing is thrown
hasDocuments(allDocuments) ==
  /\ allDocuments # Null
  /\ \/ Len(allDocuments.gcf) > 0
     \/ Len(allDocuments.policy) > 0

\* The answer of 'get-cached-documents' reaches loadDocuments, which shows
\* the documents, or the error it caught, or, when there are none, syncs
loadDocumentsCached(c) ==
  /\ rpc[c] = "loaded"
  /\ IF lengthThrows(cachedDocs[c])
     THEN /\ rpc' = [rpc EXCEPT ![c] = "idle"]
          /\ UNCHANGED <<isSyncing, ignored, handlerVars>>
     ELSE IF hasDocuments(cachedDocs[c])
     THEN /\ rpc' = [rpc EXCEPT ![c] = "idle"]
          /\ UNCHANGED <<isSyncing, ignored, handlerVars>>
     ELSE syncWithServer(c)
  /\ cachedDocs' = [cachedDocs EXCEPT ![c] = NoReply]
  /\ UNCHANGED <<now, cacheFile, docsPath, scanVars>>

\* the handler's result reaches syncWithServer: on success it asks for the
\* cache again, otherwise it shows the error and releases the flag
syncReturned(c) ==
  /\ rpc[c] = "sync"
  /\ hpc[c] = "returned"
  /\ IF result[c].success
     THEN /\ rpc' = [rpc EXCEPT ![c] = "reload"]
          /\ UNCHANGED <<isSyncing, ignored>>
     ELSE /\ rpc' = [rpc EXCEPT ![c] = "idle"]
          /\ isSyncing' = FALSE
          /\ ignored' = FALSE
  /\ hpc' = [hpc EXCEPT ![c] = "none"]
  /\ manifest' = [manifest EXCEPT ![c] = NoManifest]
  /\ localCache' = [localCache EXCEPT ![c] = EmptyCache]
  /\ toDownload' = [toDownload EXCEPT ![c] = <<>>]
  /\ idx' = [idx EXCEPT ![c] = 0]
  /\ downloaded' = [downloaded EXCEPT ![c] = 0]
  /\ failed' = [failed EXCEPT ![c] = 0]
  /\ outcomes' = [outcomes EXCEPT ![c] = <<>>]
  /\ result' = [result EXCEPT ![c] = NoResult]
  /\ events' = <<>>
  /\ UNCHANGED <<now, cacheFile, docsPath, cachedDocs, scanVars, cacheData,
                 fileResponse, chunks>>

\* the invocation of 'sync-remote-documents' is rejected instead of
\* delivering the handler's result: catch, then finally { isSyncing = false }
syncRejected(c) ==
  /\ rpc[c] = "sync"
  /\ hpc[c] = "returned"
  /\ rpc' = [rpc EXCEPT ![c] = "idle"]
  /\ isSyncing' = FALSE
  /\ ignored' = FALSE
  /\ hpc' = [hpc EXCEPT ![c] = "none"]
  /\ manifest' = [manifest EXCEPT ![c] = NoManifest]
  /\ localCache' = [localCache EXCEPT ![c] = EmptyCache]
  /\ toDownload' = [toDownload EXCEPT ![c] = <<>>]
  /\ idx' = [idx EXCEPT ![c] = 0]
  /\ downloaded' = [downloaded EXCEPT ![c] = 0]
  /\ failed' = [failed EXCEPT ![c] = 0]
  /\ outcomes' = [outcomes EXCEPT ![c] = <<>>]
  /\ result' = [result EXCEPT ![c] = NoResult]
  /\ events' = <<>>
  /\ UNCHANGED <<now, cacheFile, docsPath, cachedDocs, scanVars, cacheData,
                 fileResponse, chunks>>

\* syncWithServer without its finally block
syncReloadedHolding(c) ==
  /\ rpc[c] = "reloaded"
  /\ rpc' = [rpc EXCEPT ![c] = "idle"]
  /\ cachedDocs' = [cachedDocs EXCEPT ![c] = NoReply]
  /\ UNCHANGED <<isSyncing, ignored>>
  /\ UNCHANGED <<now, cacheFile, docsPath, scanVars, handlerVars>>

\* the answer of 'get-cached-documents' reaches syncWithServer, which shows
\* the outcome; finally { isSyncing = false }
syncReloaded(c) ==
  /\ rpc[c] = "reloaded"
  /\ rpc' = [rpc EXCEPT ![c] = "idle"]
  /\ cachedDocs' = [cachedDocs EXCEPT ![c] = NoReply]
  /\ isSyncing' = FALSE
  /\ ignored' = FALSE
  /\ UNCHANGED <<now, cacheFile, docsPath, scanVars, handlerVars>>

\* ------------------------------------------------------------------------
\* Main process: the 'scan-documents' handler
\* ------------------------------------------------------------------------
\* The handler is invoked by refreshDocuments() of src/renderer.js, the
\* renderer without the sync: the user clicks Refresh there, whatever else
\* is in progress.
refreshDocumentsScan(c) ==
  /\ FreeCall(c)
  /\ rpc' = [rpc EXCEPT ![c] = "scan"]
  /\ scan' = [scan EXCEPT ![c] = "gcf"]
  /\ documents' = [documents EXCEPT ![c] = NoDocuments]
  /\ UNCHANGED <<now, cacheFile, docsPath, isSyncing, ignored, cachedDocs,
                 listing, handlerVars>>

\* the orders in which readdir can list the names
Orderings(names) ==
  {order \in [1..Cardinality(names) -> names] :
     \A i, j \in 1..Cardinality(names) : order[i] = order[j] => i = j}

\* the names of the PDFs of the folder of the category
PdfNames(files, category) ==
  {d.name : d \in {e \in files : e.category = category}}

\* the folder of the category is scanned next, or the cache is written
ListedAt(category) == category \o "-listed"
AfterScanOf(category) == IF category = "gcf" THEN "policy" ELSE "write"

\* scanDirectory(dirPath, category) up to its await of readdir: readdir
\* lists the names in the folder of the category as it is at that time, in
\* an order of its own. A folder that does not exist is one that lists
\* nothing.
scanDirectory(c, category, names) ==
  /\ scan[c] = category
  /\ names \in Orderings(PdfNames(docsPath, category))
  /\ listing' = [listing EXCEPT ![c] = names]
  /\ scan' = [scan EXCEPT ![c] = ListedAt(category)]
  /\ UNCHANGED <<now, cacheFile, docsPath, rendererVars, documents,
                 handlerVars>>

\* fs.statSync of a listed file, as the file is when scanDirectory resumes
statSync(files, category, name) ==
  CHOOSE d \in files : d.category = category /\ d.name = name

\* scanDirectory resumes with the names readdir listed: statSync reads the
\* size and the modification time each listed PDF has by then, and an entry
\* is pushed for it; statSync of a file that is no longer there throws, and
\* the handler's catch returns the failure
scanDirectoryListed(c, category) ==
  /\ scan[c] = ListedAt(category)
  /\ IF \A i \in 1..Len(listing[c]) :
          listing[c][i] \in PdfNames(docsPath, category)
     THEN /\ documents' = [documents EXCEPT ![c][category] =
               [i \in 1..Len(listing[c]) |->
                  LET stats == statSync(docsPath, category, listing[c][i])
                  IN scannedEntry(category, listing[c][i], stats.size,
                                  stats.mdate)]]
          /\ scan' = [scan EXCEPT ![c] = AfterScanOf(category)]
     ELSE /\ documents' = [documents EXCEPT ![c] = NoDocuments]
          /\ scan' = [scan EXCEPT ![c] = "returned"]
  /\ listing' = [listing EXCEPT ![c] = <<>>]
  /\ UNCHANGED <<now, cacheFile, docsPath, rendererVars, handlerVars>>

\* writeFile of the scan opens the cache file, which empties it
scanOpened(c) ==
  /\ scan[c] = "write"
  /\ cacheFile' = [state |-> "truncated", data |-> EmptyCache]
  /\ scan' = [scan EXCEPT ![c] = "writing"]
  /\ UNCHANGED <<now, docsPath, rendererVars, listing, documents, handlerVars>>

\* writeFile of the scan has written the text and closed the file: the file
\* holds the documents found; the handler has yet to resume
scanWritten(c) ==
  /\ scan[c] = "writing"
  /\ cacheFile' \in afterWrite(cacheFile,
                               [gcf |-> documents[c].gcf,
                                policy |-> documents[c].policy,
                                lastSync |-> UNDEF])
  /\ scan' = [scan EXCEPT ![c] = "written"]
  /\ UNCHANGED <<now, docsPath, rendererVars, listing, documents, handlerVars>>

\* the handler resumes after writeFile and returns the documents found
scanCompleted(c) ==
  /\ scan[c] = "written"
  /\ scan' = [scan EXCEPT ![c] = "returned"]
  /\ UNCHANGED <<now, cacheFile, docsPath, rendererVars, listing, documents,
                 handlerVars>>

\* writeFile of the scan rejects (the file cannot be opened): the handler's
\* catch returns the failure, with no documents, and the file is as it was
scanWriteFailed(c) ==
  /\ scan[c] = "write"
  /\ scan' = [scan EXCEPT ![c] = "returned"]
  /\ documents' = [documents EXCEPT ![c] = NoDocuments]
  /\ UNCHANGED <<now, cacheFile, docsPath, rendererVars, listing, handlerVars>>

\* writeFile of the scan rejects after it has opened the file (the device
\* is full): the handler's catch, with the file left as it is then
scanWriteAborted(c) ==
  /\ scan[c] = "writing"
  /\ scan' = [scan EXCEPT ![c] = "returned"]
  /\ documents' = [documents EXCEPT ![c] = NoDocuments]
  /\ UNCHANGED <<now, cacheFile, docsPath, rendererVars, listing, handlerVars>>

\* refreshDocuments() of src/renderer.js resumes with what the handler
\* returned and shows it
scanReturned(c) ==
  /\ rpc[c] = "scan"
  /\ scan[c] = "returned"
  /\ scan' = [scan EXCEPT ![c] = "none"]
  /\ documents' = [documents EXCEPT ![c] = NoDocuments]
  /\ rpc' = [rpc EXCEPT ![c] = "idle"]
  /\ UNCHANGED <<now, cacheFile, docsPath, isSyncing, ignored, cachedDocs,
                 listing, handlerVars>>

\* ------------------------------------------------------------------------
\* Main process: the 'sync-remote-documents' handler
\* ------------------------------------------------------------------------
\* Step 3, with the manifest m and the cache file as the handler took it:
\* compareFiles; with nothing to download the handler returns, otherwise it
\* announces the downloads and starts the first one. A text that parses to
\* null makes compareFiles throw, which the handler's catch reports.
compared(c, m, file) ==
  LET loaded == readCache(file)
      call == compareFilesCall(m, loaded)
      plan == call.toDownload
      message == "Cannot read properties of null (reading 'gcf')"
  IN IF parsesToNull(file)
     THEN /\ events' = Append(events, errorEvent(message))
          /\ result' = [result EXCEPT ![c] = syncError(message)]
          /\ hpc' = [hpc EXCEPT ![c] = "returned"]
          /\ manifest' = [manifest EXCEPT ![c] = m]
          /\ UNCHANGED <<localCache, toDownload, idx>>
     ELSE
     /\ manifest' = [manifest EXCEPT ![c] = call.manifest]
     /\ localCache' = [localCache EXCEPT ![c] = call.localCache]
     /\ toDownload' = [toDownload EXCEPT ![c] = plan]
     /\ IF Len(plan) = 0
        THEN /\ result' = [result EXCEPT ![c] = upToDate]
             /\ hpc' = [hpc EXCEPT ![c] = "returned"]
             /\ UNCHANGED <<idx, events>>
        ELSE /\ events' = events \o
                   <<statusEvent(Len(plan), 0, ""),
                     statusEvent(Len(plan), 1, Str(plan[1].name))>>
             /\ idx' = [idx EXCEPT ![c] = 1]
             /\ hpc' = [hpc EXCEPT ![c] = "download"]
             /\ UNCHANGED result

\* Step 1: fetchManifest() returns. On a failure the handler returns it.
\* Otherwise the handler tests existsSync(CACHE_FILE): with a cache file it
\* calls readFile and awaits it; without one it goes on in the same turn
\* with the fresh cache, to the comparison.
manifestFetched(c, response) ==
  /\ hpc[c] = "fetch"
  /\ LET manifestResult == fetchManifest(response)
     IN IF ~manifestResult.success
        THEN /\ result' = [result EXCEPT ![c] =
                             manifestFailure(manifestResult.error)]
             /\ hpc' = [hpc EXCEPT ![c] = "returned"]
             /\ UNCHANGED <<manifest, localCache, toDownload, idx, events>>
        ELSE IF existsSync(cacheFile)
        THEN /\ manifest' = [manifest EXCEPT ![c] = manifestResult.manifest]
             /\ hpc' = [hpc EXCEPT ![c] = "read"]
             /\ UNCHANGED <<result, localCache, toDownload, idx, events>>
        ELSE compared(c, manifestResult.manifest, cacheFile)
  /\ UNCHANGED <<now, cacheFile, docsPath, rendererVars, scanVars, cacheData,
                 downloaded, failed, outcomes, fileResponse, chunks>>

\* Step 2: readFile reads the text of the cache file as it is at that time;
\* the handler, which awaits it, has yet to resume
cacheRead(c) ==
  /\ hpc[c] = "read"
  /\ cacheData' = [cacheData EXCEPT ![c] = cacheFile]
  /\ hpc' = [hpc EXCEPT ![c] = "cache"]
  /\ UNCHANGED <<now, cacheFile, docsPath, rendererVars, scanVars, manifest,
                 localCache, toDownload, idx, downloaded, failed, outcomes,
                 fileResponse, chunks, result, events>>

\* Steps 2 and 3: the handler resumes with the text readFile read, parses it
\* and compares the cache with the manifest
cacheLoaded(c) ==
  /\ hpc[c] = "cache"
  /\ compared(c, manifest[c], cacheData[c])
  /\ cacheData' = [cacheData EXCEPT ![c] = NoData]
  /\ UNCHANGED <<now, cacheFile, docsPath, rendererVars, scanVars, downloaded,
                 failed, outcomes, fileResponse, chunks>>

\* what downloadFile() holds of a response once fetch() has answered: the
\* status and the headers; the body is yet to be read
Received(response) ==
  [error |-> response.error, ok |-> response.ok, status |-> response.status,
   statusText |-> response.statusText, body |-> response.body,
   contentLength |-> response.contentLength]

\* downloadFile() of c has received this response and read chunks[c] of it
Holds(c, response) ==
  /\ fileResponse[c] = Received(response)
  /\ Len(chunks[c]) <= Len(response.chunks)
  /\ SubSeq(response.chunks, 1, Len(chunks[c])) = chunks[c]

\* downloadFile() has the response of the server and reads its body
Reading(c, response) ==
  /\ hpc[c] = "download"
  /\ response.error = ""
  /\ response.ok
  /\ response.body
  /\ fileResponse[c] = NoResponse \/ Holds(c, response)

\* Step 4, in downloadFile(): reader.read() yields the next chunk of the
\* body, the first one once fetch() has answered; the handler forwards the
\* percentage when the response declares a total
chunkRead(c, response) ==
  /\ Reading(c, response)
  /\ Len(chunks[c]) < Len(response.chunks)
  /\ LET fileInfo == toDownload[c][idx[c]]
         k == Len(chunks[c]) + 1
     IN /\ chunks' = [chunks EXCEPT ![c] = Append(@, response.chunks[k])]
        /\ events' = IF progressOf(response) = <<>> THEN events
                     ELSE Append(events, progressEvents(fileInfo, response)[k])
  /\ fileResponse' = [fileResponse EXCEPT ![c] = Received(response)]
  /\ UNCHANGED <<now, cacheFile, docsPath, rendererVars, scanVars, hpc, manifest,
                 cacheData, localCache, toDownload, idx, downloaded, failed,
                 outcomes, result>>

\* the files of the docs folder other than the file of the task
otherFiles(files, fileInfo) ==
  {d \in files : ~(d.category = fileInfo.category /\ d.name = fileInfo.name)}

\* the docs folder with size bytes of the file of the task on disk, last
\* modified at t
partFile(files, fileInfo, size, t) ==
  otherFiles(files, fileInfo)
    \cup {[category |-> fileInfo.category, name |-> fileInfo.name,
            size |-> size, mdate |-> DayString(t \div 2)]}

\* the docs folder once the file of the task is written, or is not there
savedFile(files, fileInfo, response, t) ==
  IF response.written
  THEN partFile(files, fileInfo, Sum(response.chunks), t)
  ELSE otherFiles(files, fileInfo)

\* existsSync(fileInfo.localPath)
onDisk(files, fileInfo) == files # otherFiles(files, fileInfo)

\* the bytes of the file of the task that are on disk
sizeOnDisk(files, fileInfo) ==
  LET S == files \ otherFiles(files, fileInfo)
  IN IF S = {} THEN 0 ELSE (CHOOSE d \in S : TRUE).size

\* The bytes of a file reach the disk page by page while the write of
\* writeFile is in progress: the sizes statSync can give before the write
\* is done.
PageSize == 4096
PartialSizes(total) ==
  {n \in {PageSize * k : k \in 1..(total \div PageSize)} : n < total}

\* Step 4, in downloadFile(): the body has been read to its end and
\* writeFile has opened the file, which creates it or empties the one that
\* was there; the bytes are yet to be written
fileOpened(c, response) ==
  /\ Reading(c, response)
  /\ chunks[c] = response.chunks
  /\ response.readError = ""
  /\ ~(response.fsError # "" /\ response.fsCall = "open")
  /\ docsPath' = partFile(docsPath, toDownload[c][idx[c]], 0, now)
  /\ fileResponse' = [fileResponse EXCEPT ![c] = Received(response)]
  /\ hpc' = [hpc EXCEPT ![c] = "saving"]
  /\ UNCHANGED <<now, cacheFile, rendererVars, scanVars, manifest, cacheData,
                 localCache, toDownload, idx, downloaded, failed, outcomes,
                 chunks, result, events>>

\* Step 4, in downloadFile(): a part of the bytes is on disk
filePartWritten(c) ==
  /\ hpc[c] = "saving"
  /\ \E size \in PartialSizes(Sum(chunks[c])) :
       /\ size > sizeOnDisk(docsPath, toDownload[c][idx[c]])
       /\ docsPath' = partFile(docsPath, toDownload[c][idx[c]], size, now)
  /\ UNCHANGED <<now, cacheFile, rendererVars, scanVars, handlerVars>>

\* Step 4, in downloadFile(): writeFile has written the bytes and closed
\* the file
fileWritten(c, response) ==
  /\ hpc[c] = "saving"
  /\ Holds(c, response)
  /\ chunks[c] = response.chunks
  /\ response.readError = ""
  /\ response.fsError = ""
  /\ docsPath' = savedFile(docsPath, toDownload[c][idx[c]], response, now)
  /\ hpc' = [hpc EXCEPT ![c] = "saved"]
  /\ UNCHANGED <<now, cacheFile, rendererVars, scanVars, localVars, result,
                 events>>

\* downloadFile() returns for this response: fetch() failed or answered
\* with an error status or without a body, the body stream failed after its
\* chunks, writeFile could not open the file or failed after it had opened
\* it (the file is left as it is then), or the file has been written
Returns(c, response) ==
  \/ /\ hpc[c] = "download"
     /\ fileResponse[c] = NoResponse
     /\ response.error # "" \/ ~response.ok \/ ~response.body
  \/ /\ Reading(c, response)
     /\ chunks[c] = response.chunks
     /\ \/ response.readError # ""
        \/ response.fsError # "" /\ response.fsCall = "open"
  \/ /\ hpc[c] = "saving"
     /\ Holds(c, response)
     /\ chunks[c] = response.chunks
     /\ response.readError = ""
     /\ response.fsError # "" /\ response.fsCall # "open"
  \/ /\ hpc[c] = "saved"
     /\ Holds(c, response)
     /\ chunks[c] = response.chunks
     /\ response.readError = ""
     /\ response.fsError = ""
     /\ response.written = onDisk(docsPath, toDownload[c][idx[c]])

\* the date of the modification time of the file of the task
mdateOf(files, fileInfo) ==
  LET S == files \ otherFiles(files, fileInfo)
  IN IF S = {} THEN "" ELSE (CHOOSE d \in S : TRUE).mdate

\* Step 4, one turn of the loop: downloadFile() returns for task idx, the
\* outcome is folded into localCache, and the loop either starts the next
\* download or ends, in which case step 5 stamps lastSync and calls writeFile
fileDownloaded(c, response) ==
  /\ Returns(c, response)
  /\ LET fileInfo == toDownload[c][idx[c]]
         total == Len(toDownload[c])
         downloadResult == downloadFile(fileInfo, response,
                                        mdateOf(docsPath, fileInfo))
         noArray == fileInfo.category \notin DOMAIN localCache[c]
         threw == ~downloadResult.success
                    /\ (noArray \/ placeholderThrows(localCache[c], fileInfo))
         thrown == IF noArray
                   THEN "Cannot read properties of undefined (reading 'findIndex')"
                   ELSE "Invalid time value"
         folded == IF downloadResult.success
                   THEN updateCacheWithFile(localCache[c], fileInfo.category,
                                            fileInfo, downloadResult)
                   ELSE IF threw THEN localCache[c]
                   ELSE markFailed(localCache[c], fileInfo)
     IN /\ outcomes' = [outcomes EXCEPT ![c] =
                          Append(@, downloadResult.success)]
        /\ downloaded' = [downloaded EXCEPT ![c] =
                            IF downloadResult.success THEN @ + 1 ELSE @]
        /\ failed' = [failed EXCEPT ![c] =
                        IF downloadResult.success THEN @ ELSE @ + 1]
        /\ IF threw
           THEN /\ events' = Append(events, errorEvent(thrown))
                /\ result' = [result EXCEPT ![c] = syncError(thrown)]
                /\ hpc' = [hpc EXCEPT ![c] = "returned"]
                /\ UNCHANGED <<localCache, idx>>
           ELSE IF idx[c] < total
           THEN /\ localCache' = [localCache EXCEPT ![c] = folded]
                /\ idx' = [idx EXCEPT ![c] = @ + 1]
                /\ events' = Append(events,
                      statusEvent(total, idx[c] + 1,
                                  Str(toDownload[c][idx[c] + 1].name)))
                /\ hpc' = [hpc EXCEPT ![c] = "download"]
                /\ UNCHANGED result
           ELSE /\ localCache' = [localCache EXCEPT ![c] =
                      [folded EXCEPT !.lastSync = toISOString(now)]]
                /\ idx' = [idx EXCEPT ![c] = @ + 1]
                /\ events' = events
                /\ hpc' = [hpc EXCEPT ![c] = "write"]
                /\ UNCHANGED result
  /\ fileResponse' = [fileResponse EXCEPT ![c] = NoResponse]
  /\ chunks' = [chunks EXCEPT ![c] = <<>>]
  /\ UNCHANGED <<now, cacheFile, docsPath, rendererVars, scanVars, manifest,
                 cacheData, toDownload>>

\* writeFile called inside the loop, before the tasks are all resolved
cacheOpenedEarly(c) ==
  /\ hpc[c] \in {"download", "write"}
  /\ cacheFile' = [state |-> "truncated", data |-> EmptyCache]
  /\ hpc' = [hpc EXCEPT ![c] = "writing"]
  /\ UNCHANGED <<now, docsPath, rendererVars, scanVars, localVars, result, events>>

\* Step 5: writeFile opens the cache file, which empties it
cacheOpened(c) ==
  /\ hpc[c] = "write"
  /\ cacheFile' = [state |-> "truncated", data |-> EmptyCache]
  /\ hpc' = [hpc EXCEPT ![c] = "writing"]
  /\ UNCHANGED <<now, docsPath, rendererVars, scanVars, localVars, result, events>>

\* Step 5: writeFile has written the cache; the handler has yet to resume.
\* Time has passed since lastSync was stamped: the next reading of the clock
\* gives a later instant, until the clock reaches MaxNow.
cacheWritten(c) ==
  /\ hpc[c] = "writing"
  /\ cacheFile' \in afterWrite(cacheFile, localCache[c])
  /\ hpc' = [hpc EXCEPT ![c] = "persisted"]
  /\ now' = IF now < MaxNow THEN now + 1 ELSE now
  /\ UNCHANGED <<docsPath, rendererVars, scanVars, localVars, result, events>>

\* the handler resumes after writeFile: it reports completion and returns
syncCompleted(c) ==
  /\ hpc[c] = "persisted"
  /\ events' = Append(events, completeEvent(downloaded[c], failed[c],
                                            Len(toDownload[c])))
  /\ result' = [result EXCEPT ![c] =
                  complete(downloaded[c], failed[c], Len(toDownload[c]))]
  /\ hpc' = [hpc EXCEPT ![c] = "returned"]
  /\ UNCHANGED <<now, cacheFile, docsPath, rendererVars, scanVars, localVars>>

\* the message of the error writeFile rejects with when it cannot open the
\* cache file
openError == "EACCES: permission denied, open '" \o CACHE_FILE \o "'"

\* the message of the error writeFile rejects with when the device is full
writeError == "ENOSPC: no space left on device, write"

\* writeFile rejects (the file cannot be opened): the handler's catch
cacheWriteFailed(c) ==
  /\ hpc[c] = "write"
  /\ events' = Append(events, errorEvent(openError))
  /\ result' = [result EXCEPT ![c] = syncError(openError)]
  /\ hpc' = [hpc EXCEPT ![c] = "returned"]
  /\ UNCHANGED <<now, cacheFile, docsPath, rendererVars, scanVars, localVars>>

\* writeFile rejects after it has opened the file (the device is full): the
\* handler's catch, with the file left empty
cacheWriteAborted(c) ==
  /\ hpc[c] = "writing"
  /\ events' = Append(events, errorEvent(writeError))
  /\ result' = [result EXCEPT ![c] = syncError(writeError)]
  /\ hpc' = [hpc EXCEPT ![c] = "returned"]
  /\ UNCHANGED <<now, cacheFile, docsPath, rendererVars, scanVars, localVars>>

\* ------------------------------------------------------------------------
\* Specifications
\* ------------------------------------------------------------------------
\* The renderer with the sync, one call chain at a time, against every
\* manifest and every answer of the server: the user refreshes or opens the
\* resources page after the action before has ended. This renderer does not
\* invoke 'scan-documents'; the cache a scan wrote is one of the caches the
\* application starts over. A PDF is written to its end once it could be
\* opened.
Next ==
  \/ \E c \in {1} : refreshDocuments(c)
  \/ \E c \in {1} : loadDocuments(c)
  \/ \E c \in {1} : getCachedDocuments(c)
  \/ \E c \in {1} : loadDocumentsCached(c)
  \/ \E c \in {1} : syncReturned(c)
  \/ \E c \in {1} : syncReloaded(c)
  \/ \E c \in {1}, response \in ManifestResponses : manifestFetched(c, response)
  \/ \E c \in {1} : cacheRead(c)
  \/ \E c \in {1} : cacheLoaded(c)
  \/ \E c \in {1}, response \in FileResponses : chunkRead(c, response)
  \/ \E c \in {1}, response \in FileResponses : fileOpened(c, response)
  \/ \E c \in {1} : filePartWritten(c)
  \/ \E c \in {1}, response \in FileResponses : fileWritten(c, response)
  \/ \E c \in {1}, response \in FileResponses : fileDownloaded(c, response)
  \/ \E c \in {1} : cacheOpened(c)
  \/ \E c \in {1} : cacheWritten(c)
  \/ \E c \in {1} : syncCompleted(c)
  \/ \E c \in {1} : cacheWriteFailed(c)
  \/ \E c \in {1} : cacheWriteAborted(c)

Spec == Init /\ [][Next]_vars

\* The user acts while earlier actions are still in progress, with the
\* renderer that syncs or the one of src/renderer.js, whose Refresh scans
\* the docs folder: MaxCalls call chains interleave, against a server with
\* at most one file. The docs folder may hold a PDF put there by hand.
UserManifestResponses ==
  { r \in ManifestResponses :
      /\ r.status \in {200, 503}
      /\ r.error = ""
      /\ r.ok => /\ r.gcfIsArray /\ r.policyIsArray
                 /\ r.policy = <<>>
                 /\ r.gcf \in {<<>>, <<[name |-> NameA, size |-> 500,
                                       modified |-> StampNew]>>} }

\* the steps of the sync and of the renderer that has it
SyncNext ==
  \/ \E c \in Calls : refreshDocuments(c)
  \/ \E c \in Calls : loadDocuments(c)
  \/ \E c \in Calls : getCachedDocuments(c)
  \/ \E c \in Calls : loadDocumentsCached(c)
  \/ \E c \in Calls : syncReturned(c)
  \/ \E c \in Calls : syncReloaded(c)
  \/ \E c \in Calls, response \in UserManifestResponses :
        manifestFetched(c, response)
  \/ \E c \in Calls : cacheRead(c)
  \/ \E c \in Calls : cacheLoaded(c)
  \/ \E c \in Calls, response \in FileResponses : chunkRead(c, response)
  \/ \E c \in Calls, response \in FileResponses : fileOpened(c, response)
  \/ \E c \in Calls : filePartWritten(c)
  \/ \E c \in Calls, response \in FileResponses : fileWritten(c, response)
  \/ \E c \in Calls, response \in FileResponses : fileDownloaded(c, response)
  \/ \E c \in Calls : cacheOpened(c)
  \/ \E c \in Calls : cacheWritten(c)
  \/ \E c \in Calls : syncCompleted(c)
  \/ \E c \in Calls : cacheWriteFailed(c)
  \/ \E c \in Calls : cacheWriteAborted(c)

\* the steps of a scan of the docs folder
ScanNext ==
  \/ \E c \in Calls : refreshDocumentsScan(c)
  \/ \E c \in Calls, category \in Categories :
        \E names \in Orderings(PdfNames(docsPath, category)) :
          scanDirectory(c, category, names)
  \/ \E c \in Calls, category \in Categories : scanDirectoryListed(c, category)
  \/ \E c \in Calls : scanOpened(c)
  \/ \E c \in Calls : scanWritten(c)
  \/ \E c \in Calls : scanCompleted(c)
  \/ \E c \in Calls : scanWriteFailed(c)
  \/ \E c \in Calls : scanWriteAborted(c)
  \/ \E c \in Calls : scanReturned(c)

UserNext == SyncNext \/ ScanNext

UserSpec == UserInit /\ [][UserNext]_vars

\* Two call chains with the renderer that syncs, against a server that
\* cannot be reached or lists one or two files: the user refreshes or opens
\* the resources page while a sync sends its events.
OrderResponses ==
  { r \in ManifestResponses :
      /\ r.status \in {200, 503}
      /\ r.error = ""
      /\ r.ok => /\ r.gcfIsArray /\ r.policyIsArray
                 /\ r.policy = <<>>
                 /\ r.gcf \in
                      {<<[name |-> NameA, size |-> 500, modified |-> StampNew]>>,
                       <<[name |-> NameA, size |-> 500, modified |-> StampNew],
                         [name |-> NameB, size |-> 500,
                          modified |-> StampNew]>>} }

OrderNext ==
  \/ \E c \in Calls : refreshDocuments(c)
  \/ \E c \in Calls : loadDocuments(c)
  \/ \E c \in Calls : getCachedDocuments(c)
  \/ \E c \in Calls : loadDocumentsCached(c)
  \/ \E c \in Calls : syncReturned(c)
  \/ \E c \in Calls : syncReloaded(c)
  \/ \E c \in Calls, response \in OrderResponses : manifestFetched(c, response)
  \/ \E c \in Calls : cacheRead(c)
  \/ \E c \in Calls : cacheLoaded(c)
  \/ \E c \in Calls, response \in FileResponses : chunkRead(c, response)
  \/ \E c \in Calls, response \in FileResponses : fileOpened(c, response)
  \/ \E c \in Calls : filePartWritten(c)
  \/ \E c \in Calls, response \in FileResponses : fileWritten(c, response)
  \/ \E c \in Calls, response \in FileResponses : fileDownloaded(c, response)
  \/ \E c \in Calls : cacheOpened(c)
  \/ \E c \in Calls : cacheWritten(c)
  \/ \E c \in Calls : syncCompleted(c)
  \/ \E c \in Calls : cacheWriteFailed(c)
  \/ \E c \in Calls : cacheWriteAborted(c)

OrderSpec == Init /\ [][OrderNext]_vars

\* The server declares a content-length that is absent (0), equal to the
\* bytes of the body, larger, or smaller (a body sent with a
\* content-encoding is counted in decoded bytes, the header in encoded
\* ones), and the body arrives in one, two or three chunks; or a body of 200
\* bytes arrives in chunks of 29 and 171 bytes.
ProgressResponses ==
  { Body(n, cs) : n \in {0, 9405, 18810, 37620},
                  cs \in {<<18810>>, <<9405, 9405>>, <<6270, 6270, 6270>>} }
    \cup { Body(200, <<29, 171>>) }
    \cup {r \in FileResponses : r.error # ""}

ProgressNext ==
  \/ \E c \in {1} : refreshDocuments(c)
  \/ \E c \in {1} : loadDocuments(c)
  \/ \E c \in {1} : getCachedDocuments(c)
  \/ \E c \in {1} : loadDocumentsCached(c)
  \/ \E c \in {1} : syncReturned(c)
  \/ \E c \in {1} : syncReloaded(c)
  \/ \E c \in {1}, response \in UserManifestResponses :
        manifestFetched(c, response)
  \/ \E c \in {1} : cacheRead(c)
  \/ \E c \in {1} : cacheLoaded(c)
  \/ \E c \in {1}, response \in ProgressResponses : chunkRead(c, response)
  \/ \E c \in {1}, response \in ProgressResponses : fileOpened(c, response)
  \/ \E c \in {1} : filePartWritten(c)
  \/ \E c \in {1}, response \in ProgressResponses : fileWritten(c, response)
  \/ \E c \in {1}, response \in ProgressResponses :
        fileDownloaded(c, response)
  \/ \E c \in {1} : cacheOpened(c)
  \/ \E c \in {1} : cacheWritten(c)
  \/ \E c \in {1} : syncCompleted(c)
  \/ \E c \in {1} : cacheWriteFailed(c)
  \/ \E c \in {1} : cacheWriteAborted(c)

ProgressSpec == Init /\ [][ProgressNext]_vars

\* Repeated syncs: the user refreshes again and again, the server answers
\* with a manifest that lists one gcf file once or twice, and downloads and
\* cache writes succeed or fail. Every step that is enabled is eventually
\* taken: the awaited fetch, download and write settle (each has a timeout
\* or completes), and the renderer resumes when the handler returns.
ConvergeManifests ==
  {m \in Manifests :
     /\ m.policy = <<>>
     /\ m.gcf # <<>>
     /\ \A i \in 1..Len(m.gcf) :
          m.gcf[i].name = NameA /\ m.gcf[i].modified # "not a date"}

ConvergeResponses ==
  {r \in GoodManifestResponses :
     [gcf |-> r.gcf, policy |-> r.policy] \in ConvergeManifests}

ConvergeNext ==
  \/ \E c \in {1} : refreshDocuments(c)
  \/ \E c \in {1} : getCachedDocuments(c)
  \/ \E c \in {1} : syncReturned(c)
  \/ \E c \in {1} : syncReloaded(c)
  \/ \E c \in {1}, response \in ConvergeResponses :
        manifestFetched(c, response)
  \/ \E c \in {1} : cacheRead(c)
  \/ \E c \in {1} : cacheLoaded(c)
  \/ \E c \in {1}, response \in FileResponses : chunkRead(c, response)
  \/ \E c \in {1}, response \in FileResponses : fileOpened(c, response)
  \/ \E c \in {1} : filePartWritten(c)
  \/ \E c \in {1}, response \in FileResponses : fileWritten(c, response)
  \/ \E c \in {1}, response \in FileResponses : fileDownloaded(c, response)
  \/ \E c \in {1} : cacheOpened(c)
  \/ \E c \in {1} : cacheWritten(c)
  \/ \E c \in {1} : syncCompleted(c)
  \/ \E c \in {1} : cacheWriteFailed(c)
  \/ \E c \in {1} : cacheWriteAborted(c)

\* a step of downloadFile() or the turn of the loop that ends it
DownloadStep ==
  \E c \in Calls :
    \/ chunks'[c] # chunks[c]
    \/ hpc[c] = "download" /\ hpc'[c] = "saving"
    \/ hpc[c] = "saving" /\ hpc'[c] = "saved"
    \/ Len(outcomes'[c]) > Len(outcomes[c])

\* Weak fairness of the steps of a download, written out: one of them is
\* enabled exactly while the handler is in a download.
DownloadFairness ==
  \/ []<>(\A c \in Calls : hpc[c] \notin {"download", "saving", "saved"})
  \/ []<><<DownloadStep>>_vars

\* weak fairness of every step
ConvergeFairness ==
  /\ WF_vars(\E c \in {1} : refreshDocuments(c))
  /\ WF_vars(\E c \in {1} : getCachedDocuments(c))
  /\ WF_vars(\E c \in {1} : syncReturned(c))
  /\ WF_vars(\E c \in {1} : syncReloaded(c))
  /\ WF_vars(\E c \in {1}, response \in ConvergeResponses :
               manifestFetched(c, response))
  /\ WF_vars(\E c \in {1} : cacheRead(c))
  /\ WF_vars(\E c \in {1} : cacheLoaded(c))
  /\ DownloadFairness
  /\ WF_vars((\E c \in {1} : cacheOpened(c))
               \/ (\E c \in {1} : cacheWriteFailed(c)))
  /\ WF_vars((\E c \in {1} : cacheWritten(c))
               \/ (\E c \in {1} : cacheWriteAborted(c)))
  /\ WF_vars(\E c \in {1} : syncCompleted(c))

ConvergeSpec == Init /\ [][ConvergeNext]_vars /\ ConvergeFairness

\* The user acts at any time, an invocation may be rejected and the device
\* may be full when a PDF is written; what the program awaits settles: the
\* fetches and the downloads have a timeout, the
\* write of the cache file completes or fails, and the renderer resumes when
\* an invocation settles. The user's actions are under no fairness.
ReleaseNext ==
  \/ \E c \in Calls : refreshDocuments(c)
  \/ \E c \in Calls : loadDocuments(c)
  \/ \E c \in Calls : getCachedDocuments(c)
  \/ \E c \in Calls : loadDocumentsCached(c)
  \/ \E c \in Calls : syncReturned(c)
  \/ \E c \in Calls : syncReloaded(c)
  \/ \E c \in Calls, response \in UserManifestResponses :
        manifestFetched(c, response)
  \/ \E c \in Calls : cacheRead(c)
  \/ \E c \in Calls : cacheLoaded(c)
  \/ \E c \in Calls, response \in FullDeviceResponses : chunkRead(c, response)
  \/ \E c \in Calls, response \in FullDeviceResponses : fileOpened(c, response)
  \/ \E c \in Calls : filePartWritten(c)
  \/ \E c \in Calls, response \in FullDeviceResponses : fileWritten(c, response)
  \/ \E c \in Calls, response \in FullDeviceResponses :
        fileDownloaded(c, response)
  \/ \E c \in Calls : cacheOpened(c)
  \/ \E c \in Calls : cacheWritten(c)
  \/ \E c \in Calls : syncCompleted(c)
  \/ \E c \in Calls : cacheWriteFailed(c)
  \/ \E c \in Calls : cacheWriteAborted(c)
  \/ \E c \in Calls : syncRejected(c)

ReleaseFairness ==
  /\ WF_vars(\E c \in Calls, response \in UserManifestResponses :
               manifestFetched(c, response))
  /\ WF_vars(\E c \in Calls : cacheRead(c))
  /\ WF_vars(\E c \in Calls : cacheLoaded(c))
  /\ DownloadFairness
  /\ WF_vars((\E c \in Calls : cacheOpened(c))
               \/ (\E c \in Calls : cacheWriteFailed(c)))
  /\ WF_vars((\E c \in Calls : cacheWritten(c))
               \/ (\E c \in Calls : cacheWriteAborted(c)))
  /\ WF_vars(\E c \in Calls : syncCompleted(c))
  /\ WF_vars((\E c \in Calls : syncReturned(c))
               \/ (\E c \in Calls : syncRejected(c)))
  /\ \A c \in Calls : WF_vars(getCachedDocuments(c))
  /\ WF_vars(\E c \in Calls : syncReloaded(c))

ReleaseSpec == Init /\ [][ReleaseNext]_vars /\ ReleaseFairness

\* The application starts over a cache file whose text parses as JSON but
\* is not what a sync writes: an object without the gcf and policy arrays,
\* or a cache with two records for one file.
AnyCacheFiles ==
  { [state |-> "written", data |-> [lastSync |-> UNDEF]],
    [state |-> "written",
     data |-> [gcf |-> <<scannedEntry("gcf", NameA, 18810, DayString(1)),
                         scannedEntry("gcf", NameA, 18810, DayString(1))>>,
               policy |-> <<>>, lastSync |-> UNDEF]] }

AnyCacheInit == Start(AnyCacheFiles \cup InitialCacheFiles)

\* the user refreshes or opens the resources page
AnyCacheNext ==
  \/ \E c \in {1} : refreshDocuments(c)
  \/ \E c \in {1} : loadDocuments(c)
  \/ \E c \in {1} : getCachedDocuments(c)
  \/ \E c \in {1} : loadDocumentsCached(c)
  \/ \E c \in {1} : syncReturned(c)
  \/ \E c \in {1} : syncReloaded(c)
  \/ \E c \in {1}, response \in UserManifestResponses :
        manifestFetched(c, response)
  \/ \E c \in {1} : cacheRead(c)
  \/ \E c \in {1} : cacheLoaded(c)
  \/ \E c \in {1}, response \in FileResponses : chunkRead(c, response)
  \/ \E c \in {1}, response \in FileResponses : fileOpened(c, response)
  \/ \E c \in {1} : filePartWritten(c)
  \/ \E c \in {1}, response \in FileResponses : fileWritten(c, response)
  \/ \E c \in {1}, response \in FileResponses : fileDownloaded(c, response)
  \/ \E c \in {1} : cacheOpened(c)
  \/ \E c \in {1} : cacheWritten(c)
  \/ \E c \in {1} : syncCompleted(c)
  \/ \E c \in {1} : cacheWriteFailed(c)
  \/ \E c \in {1} : cacheWriteAborted(c)

AnyCacheSpec == AnyCacheInit /\ [][AnyCacheNext]_vars

\* The application starts over a cache file that it cannot use: one whose
\* text is not JSON, or is the JSON value null.
CorruptCacheFiles ==
  { [state |-> "garbage", data |-> EmptyCache],
    [state |-> "null", data |-> EmptyCache] }

CorruptInit == UserStart(CorruptCacheFiles \cup InitialCacheFiles)

CorruptSpec == CorruptInit /\ [][UserNext]_vars

\* ------------------------------------------------------------------------
\* Properties
\* ------------------------------------------------------------------------
\* downloadFile() is in flight for task idx[c] of the plan of c
InDownload(c) == hpc[c] \in {"download", "saving", "saved"}

\* The step in which the handler of c, holding the manifest, takes the cache
\* and compares: its resumption after readFile or, when there is no cache
\* file, the step in which the manifest arrives.
Compares(c) ==
  \/ hpc[c] = "cache" /\ hpc'[c] # "cache"
  \/ /\ hpc[c] = "fetch"
     /\ hpc'[c] \in {"download", "returned"}
     /\ result'[c].stage # "fetch-manifest"

\* the cache file as the handler took it for that step: the text readFile
\* read, or the file that is missing
Taken(c) == IF hpc[c] = "cache" THEN cacheData[c] ELSE cacheFile

\* The handler of c has compared and not yet resolved a task: toDownload[c]
\* is the plan for manifest[c] and localCache[c], which is still the cache
\* as it was loaded.
Planned(c) ==
  \/ InDownload(c) /\ idx[c] = 1
  \/ hpc[c] = "returned" /\ result[c] = upToDate

\* the record of the cache's category that has the relative path of file
HasRecord(cache, category, name) ==
  \E k \in 1..Len(cache[category]) :
     cache[category][k].file = RelativePath(category, name)

RecordOf(cache, category, name) ==
  cache[category][CHOOSE k \in 1..Len(cache[category]) :
                     cache[category][k].file = RelativePath(category, name)]

\* the plan has a task with this reason for the manifest entry file
TaskFor(plan, category, file, reason) ==
  \E j \in 1..Len(plan) :
     /\ plan[j].category = category
     /\ plan[j].name = file.name
     /\ plan[j].modified = file.modified
     /\ plan[j].size = file.size
     /\ plan[j].relativePath = RelativePath(category, file.name)
     /\ plan[j].reason = reason

\* C1: every manifest entry whose relative path has a record with syncStatus
\* 'failed' in the cache's array of the same category is in the plan, with
\* reason 'retry', whatever the timestamps are.
C1_FailedAlwaysRetried ==
  \A c \in Calls : Planned(c) =>
    \A category \in Categories :
      \A i \in 1..Len(manifest[c][category]) :
        LET file == manifest[c][category][i]
        IN (\E k \in 1..Len(localCache[c][category]) :
              /\ localCache[c][category][k].file
                   = RelativePath(category, file.name)
              /\ localCache[c][category][k].syncStatus = "failed")
           => TaskFor(toDownload[c], category, file, "retry")

\* a failed record is retried although the manifest's timestamp is older
\* than the one recorded
C1_Witness ==
  \E c \in Calls :
    /\ Planned(c)
    /\ \E i \in 1..Len(manifest[c].gcf) :
         LET file == manifest[c].gcf[i]
         IN /\ HasRecord(localCache[c], "gcf", file.name)
            /\ RecordOf(localCache[c], "gcf", file.name).syncStatus = "failed"
            /\ RecordOf(localCache[c], "gcf", file.name).remoteModified = StampNew
            /\ file.modified = StampOld
            /\ TaskFor(toDownload[c], "gcf", file, "retry")

\* the timestamp recorded for a record: remoteModified, or date without it
Recorded(doc) == OrElse(doc.remoteModified, doc.date)

\* the manifest's timestamp is equal to or older than the recorded one
NotNewer(modified, doc) ==
  \/ modified = Recorded(doc)
  \/ /\ DateParse(modified) # NaN
     /\ DateParse(Recorded(doc)) # NaN
     /\ DateParse(modified) <= DateParse(Recorded(doc))

\* C2: the plan has no task whose relative path has a record in the cache
\* (same category) with a syncStatus other than 'failed' and a recorded
\* timestamp that the manifest's modified does not exceed.
C2_NoRedundantDownload ==
  \A c \in Calls : Planned(c) =>
    \A j \in 1..Len(toDownload[c]) :
      LET task == toDownload[c][j]
      IN ~ \E k \in 1..Len(localCache[c][task.category]) :
             LET doc == localCache[c][task.category][k]
             IN /\ doc.file = task.relativePath
                /\ doc.syncStatus # "failed"
                /\ NotNewer(task.modified, doc)

\* a manifest entry with an older and one with an equal timestamp are left
\* out of a plan
C2_Witness ==
  \E c \in Calls :
    /\ Planned(c)
    /\ Len(manifest[c].gcf) = 2
    /\ toDownload[c] = <<>>
    /\ \E i, j \in 1..2 :
         LET older == manifest[c].gcf[i]
             equal == manifest[c].gcf[j]
         IN /\ HasRecord(localCache[c], "gcf", older.name)
            /\ HasRecord(localCache[c], "gcf", equal.name)
            /\ RecordOf(localCache[c], "gcf", older.name).syncStatus = "success"
            /\ RecordOf(localCache[c], "gcf", older.name).remoteModified = StampNew
            /\ older.modified = StampOld
            /\ RecordOf(localCache[c], "gcf", equal.name).syncStatus = "success"
            /\ equal.modified = RecordOf(localCache[c], "gcf", equal.name).remoteModified
            /\ DateParse(equal.modified) # NaN

\* The handler of c has persisted the cache and returned, every download
\* having succeeded.
SyncedAll(c) ==
  /\ hpc[c] = "returned"
  /\ result[c].stage = "complete"
  /\ result[c].total > 0
  /\ result[c].failed = 0

\* C3: after a sync that completed with every download successful and the
\* cache persisted, a second sync against the same manifest finds nothing to
\* download: it returns downloaded = 0, failed = 0, total = 0 and, writing
\* nothing, leaves the cache file as the first sync wrote it. The second sync
\* reads the file the first one wrote and compares it with the same manifest;
\* it returns those counts, and leaves the file alone, exactly when that plan
\* is empty.
C3_Idempotent ==
  \A c \in Calls : SyncedAll(c) =>
    /\ cacheFile = [state |-> "written", data |-> localCache[c]]
    /\ compareFiles(manifest[c], readCache(cacheFile)) = <<>>

\* the record written for the task just resolved, by a successful download
LastResolved(c) == toDownload[c][Len(outcomes[c])]

JustSucceeded(c) ==
  /\ hpc[c] \in {"download", "saving", "saved", "write", "writing",
                "persisted", "returned"}
  /\ result[c].stage \in {"none", "complete"}
  /\ Len(outcomes[c]) > 0
  /\ outcomes[c][Len(outcomes[c])]

\* C4: the record updateCacheWithFile writes for a task is left out of a plan
\* for a manifest that lists the task's file with the task's modified value,
\* whatever that value is.
C4_RoundTrip ==
  \A c \in Calls : JustSucceeded(c) =>
    LET task == LastResolved(c)
    IN \A size \in {task.size, 18810} :
         ~ needsDownload([name |-> task.name, size |-> size,
                          modified |-> task.modified],
                         localCache[c][task.category], task.category)

\* a task with the empty and one with the unparseable modified value have
\* been downloaded, and one whose timestamp is later than the local date
C4_Witness ==
  \E c \in Calls :
    /\ JustSucceeded(c)
    /\ Len(outcomes[c]) = 2
    /\ outcomes[c][1]
    /\ toDownload[c][1].modified = ""
    /\ toDownload[c][2].modified = "not a date"
    /\ \E k \in 1..Len(localCache[c].gcf) :
         /\ localCache[c].gcf[k].remoteModified = "not a date"
         /\ localCache[c].gcf[k].syncStatus = "success"

\* the modified value of the last entry of the manifest that lists the file
LastModified(files, name) ==
  files[CHOOSE i \in 1..Len(files) :
          /\ files[i].name = name
          /\ \A j \in 1..Len(files) : files[j].name = name => j <= i].modified

\* the plan is one task with reason 'new' for every manifest entry, in the
\* manifest's order
AllNew(plan, m) ==
  /\ Len(plan) = Len(m.gcf) + Len(m.policy)
  /\ \A i \in 1..Len(m.gcf) :
       /\ plan[i].category = "gcf"
       /\ plan[i].name = m.gcf[i].name
       /\ plan[i].modified = m.gcf[i].modified
       /\ plan[i].reason = "new"
  /\ \A i \in 1..Len(m.policy) :
       /\ plan[Len(m.gcf) + i].category = "policy"
       /\ plan[Len(m.gcf) + i].name = m.policy[i].name
       /\ plan[Len(m.gcf) + i].modified = m.policy[i].modified
       /\ plan[Len(m.gcf) + i].reason = "new"

\* C5: from an empty cache the plan has one task with reason 'new' for every
\* manifest entry; and when such a plan has been downloaded without a failure
\* the persisted cache has, for each listed file, exactly one record in its
\* category, with syncStatus 'success' and the manifest's modified value for
\* that file as remoteModified (the value of the last entry that lists it).
C5_InitialSync ==
  \A c \in Calls :
    /\ (Planned(c) /\ localCache[c].gcf = <<>> /\ localCache[c].policy = <<>>)
         => AllNew(toDownload[c], manifest[c])
    /\ (SyncedAll(c) /\ AllNew(toDownload[c], manifest[c])) =>
         /\ cacheFile.state = "written"
         /\ \A category \in Categories :
              \A i \in 1..Len(manifest[c][category]) :
                LET name == manifest[c][category][i].name
                    docs == cacheFile.data[category]
                    S == {k \in 1..Len(docs) :
                            docs[k].file = RelativePath(category, name)}
                IN /\ Cardinality(S) = 1
                   /\ \A k \in S :
                        /\ docs[k].syncStatus = "success"
                        /\ docs[k].remoteModified
                             = LastModified(manifest[c][category], name)

\* a first sync of a gcf and a policy file into the empty cache
C5_Witness ==
  \E c \in Calls :
    /\ SyncedAll(c)
    /\ AllNew(toDownload[c], manifest[c])
    /\ Len(manifest[c].gcf) = 1
    /\ Len(manifest[c].policy) = 1
    /\ Len(cacheFile.data.gcf) = 1
    /\ Len(cacheFile.data.policy) = 1
    /\ cacheFile.data.policy[1].syncStatus = "success"

\* the step resolves the task idx[c] of c's plan with a successful download
SuccessStep(c) ==
  /\ InDownload(c)
  /\ outcomes'[c] = Append(outcomes[c], TRUE)

\* C6: a successful download of a task whose relative path has a record in
\* its category replaces that record at its index: the array keeps its
\* length and its other records, and the record now has syncStatus 'success'
\* and the task's modified value as remoteModified. A record is appended
\* when, and only when, no record has that relative path. The array of the
\* other category is left alone.
C6_ReplacedInPlace ==
  [][\A c \in Calls : SuccessStep(c) =>
       LET task == toDownload[c][idx[c]]
           old == localCache[c][task.category]
           new == localCache'[c][task.category]
           S == {k \in 1..Len(old) : old[k].file = task.relativePath}
       IN /\ \A other \in Categories \ {task.category} :
               localCache'[c][other] = localCache[c][other]
          /\ IF S # {}
             THEN /\ Len(new) = Len(old)
                  /\ \E k \in S :
                       /\ \A j \in S : k <= j
                       /\ \A i \in 1..Len(old) : i # k => new[i] = old[i]
                       /\ new[k].file = task.relativePath
                       /\ new[k].syncStatus = "success"
                       /\ new[k].remoteModified = task.modified
             ELSE /\ Len(new) = Len(old) + 1
                  /\ SubSeq(new, 1, Len(old)) = old
                  /\ new[Len(new)].file = task.relativePath
                  /\ new[Len(new)].syncStatus = "success"
                  /\ new[Len(new)].remoteModified = task.modified
    ]_vars

\* the first of two records has been replaced by the download of an updated
\* file, and the second record is still the one of the other file
C6_Witness ==
  \E c \in Calls :
    /\ JustSucceeded(c)
    /\ LastResolved(c).reason = "updated"
    /\ Len(localCache[c].gcf) = 2
    /\ localCache[c].gcf[1].file = LastResolved(c).relativePath
    /\ localCache[c].gcf[1].remoteModified = LastResolved(c).modified
    /\ localCache[c].gcf[1].syncStatus = "success"
    /\ localCache[c].gcf[2].file = RelativePath("gcf", NameB)

\* no category of the manifest lists a name twice
ListedOnce(m) ==
  \A category \in Categories :
    \A i, j \in 1..Len(m[category]) :
      m[category][i].name = m[category][j].name => i = j

\* The second plan is empty whenever the manifest lists no file twice: a
\* manifest that does gets two tasks for one path (compareFiles looks every
\* entry up in the cache as it was loaded), and the record keeps the
\* modified value of the later entry.
IdempotentWhenListedOnce ==
  \A c \in Calls : (SyncedAll(c) /\ ListedOnce(manifest[c])) =>
    compareFiles(manifest[c], readCache(cacheFile)) = <<>>

\* The handler of c has persisted the cache and returned.
Persisted(c) ==
  /\ hpc[c] = "returned"
  /\ result[c].stage = "complete"
  /\ result[c].total > 0

\* every task of c whose download failed has a record in the cache file, the
\* records of its file are marked 'failed', and the plan for the same
\* manifest and that cache file has its manifest entry with reason 'retry'
FailedThenRetried(c) ==
  \A i \in 1..Len(outcomes[c]) : ~outcomes[c][i] =>
    LET task == toDownload[c][i]
        docs == cacheFile.data[task.category]
    IN /\ \E k \in 1..Len(docs) : docs[k].file = task.relativePath
       /\ \A k \in 1..Len(docs) :
            docs[k].file = task.relativePath
              => docs[k].syncStatus = "failed"
       /\ TaskFor(compareFiles(manifest[c], cacheFile.data), task.category,
                  [name |-> task.name, size |-> task.size,
                   modified |-> task.modified], "retry")

\* C7: when a download failed in a sync that persisted the cache, the
\* persisted record of that file has syncStatus 'failed', and the plan of
\* the next sync against the unchanged manifest has the file with reason
\* 'retry'.
C7_FailedThenRetried ==
  \A c \in Calls : Persisted(c) => FailedThenRetried(c)

\* the same for manifests that list no file twice
C7_WhenListedOnce ==
  \A c \in Calls : (Persisted(c) /\ ListedOnce(manifest[c])) =>
    FailedThenRetried(c)

\* C8: when fetchManifest fails, the handler returns success false with
\* stage 'fetch-manifest' and a message that embeds the error, having
\* attempted no download and sent no event, and the cache file is as it was.
\* Every failing answer of the server gives a failure of fetchManifest; the
\* handler leaves its first step either with that result or with the
\* manifest (awaiting the cache file, or, without a cache file, with the
\* comparison already made); and up to the return of the failure no step
\* changes the cache file or sends an event.
C8_ManifestFailure ==
  /\ [](\A c \in Calls :
          (hpc[c] = "returned" /\ result[c].stage = "fetch-manifest") =>
             /\ result[c].success = FALSE
             /\ result[c].error
                  \in {fetchManifest(r).error : r \in BadManifestResponses}
             /\ result[c].message
                  = "Failed to fetch manifest: " \o result[c].error
             /\ outcomes[c] = <<>>
             /\ toDownload[c] = <<>>
             /\ idx[c] = 0
             /\ downloaded[c] = 0
             /\ events = <<>>)
  /\ [][\A c \in Calls : hpc[c] = "fetch" =>
          /\ cacheFile' = cacheFile
          /\ \/ /\ hpc'[c] = "fetch"
                /\ events' = events
             \/ /\ hpc'[c] \in {"read", "download"}
                /\ manifest'[c] \in Manifests
             \/ /\ hpc'[c] = "returned"
                /\ result'[c].success
                /\ manifest'[c] \in Manifests
             \/ /\ hpc'[c] = "returned"
                /\ result'[c].stage = "fetch-manifest"
                /\ events' = events
                /\ manifest'[c] = manifest[c]
                /\ localCache'[c] = localCache[c]
       ]_vars
  /\ [](\A r \in BadManifestResponses :
          /\ ~fetchManifest(r).success
          /\ fetchManifest(r).error # "")

\* the server answered 503 to a sync started over a written cache
C8_Witness ==
  \E c \in Calls :
    /\ hpc[c] = "returned"
    /\ result[c].stage = "fetch-manifest"
    /\ result[c].message
         = "Failed to fetch manifest: Server returned 503: Service Unavailable"
    /\ cacheFile.state = "written"
    /\ cacheFile.data.lastSync # UNDEF

\* no two records of the array have the same file
UniqueFiles(docs) ==
  \A i, j \in 1..Len(docs) : docs[i].file = docs[j].file => i = j

\* C9: no category array of a cache, in the memory of a handler or in the
\* cache file, has two records with the same file.
C9_FileUnique ==
  \A category \in Categories :
    /\ UniqueFiles(cacheFile.data[category])
    /\ \A c \in Calls : UniqueFiles(localCache[c][category])

\* a sync whose plan had two tasks for one path, a failed and a successful
\* one, has persisted a single record for it
C9_Witness ==
  \E c \in Calls :
    /\ Persisted(c)
    /\ Len(toDownload[c]) = 2
    /\ toDownload[c][1].relativePath = toDownload[c][2].relativePath
    /\ outcomes[c] = <<FALSE, TRUE>>
    /\ Len(cacheFile.data.gcf) = 1

\* the handler of c is executing, or has returned a result that
\* syncWithServer has not yet taken
InFlight(c) == hpc[c] # "none"

\* C10: no two executions of the 'sync-remote-documents' handler overlap,
\* and a request made while a sync is in flight starts no handler and leaves
\* the one in flight as it is: a handler starts only when none is in flight
\* and the flag is clear, ends only by returning its result, and the step of
\* an ignored request changes nothing of the handlers.
C10_SingleSync ==
  /\ [](Cardinality({c \in Calls : InFlight(c)}) <= 1)
  /\ []((\E c \in Calls : InFlight(c)) => isSyncing)
  /\ [][/\ \A c \in Calls :
             /\ (~InFlight(c) /\ InFlight(c)') =>
                   /\ ~isSyncing
                   /\ \A d \in Calls : ~InFlight(d)
                   /\ hpc'[c] = "fetch"
             /\ (InFlight(c) /\ ~InFlight(c)') => hpc[c] = "returned"
        /\ (isSyncing /\ ~ignored /\ ignored') =>
             /\ UNCHANGED <<handlerVars, isSyncing, now, cacheFile>>
             /\ \A c \in Calls : rpc'[c] = "sync" => rpc[c] = "sync"
       ]_vars

\* a request has been ignored while a handler was downloading
C10_Witness ==
  \E c \in Calls :
    /\ hpc[c] = "download"
    /\ rpc[c] = "sync"
    /\ isSyncing
    /\ ignored

\* the step resolves the task idx[c] of c's plan with a failed download
FailureStep(c) ==
  /\ InDownload(c)
  /\ outcomes'[c] = Append(outcomes[c], FALSE)

\* the number of failed downloads among the tasks resolved
FailedCount(c) == Cardinality({i \in 1..Len(outcomes[c]) : ~outcomes[c][i]})

\* C11: a failed download does not abort the loop. The step that resolves a
\* task with a failure counts it, leaves the file's record with syncStatus
\* 'failed' and goes on to the next task, or to the write of the cache after
\* the last one; and a sync that returns stage 'complete' has attempted every
\* task of its plan once, has persisted the cache and reports as failed the
\* number of failed tasks.
C11_FailureDoesNotAbort ==
  /\ [][\A c \in Calls : FailureStep(c) =>
          LET task == toDownload[c][idx[c]]
              docs == localCache'[c][task.category]
          IN /\ hpc'[c] = IF idx[c] < Len(toDownload[c])
                          THEN "download" ELSE "write"
             /\ idx'[c] = idx[c] + 1
             /\ failed'[c] = failed[c] + 1
             /\ result'[c] = result[c]
             /\ \E k \in 1..Len(docs) :
                  /\ docs[k].file = task.relativePath
                  /\ docs[k].syncStatus = "failed"
       ]_vars
  /\ [](\A c \in Calls :
          (hpc[c] = "returned" /\ result[c].stage = "complete"
             /\ toDownload[c] # <<>>) =>
            /\ result[c].success
            /\ Len(outcomes[c]) = Len(toDownload[c])
            /\ result[c].total = Len(toDownload[c])
            /\ result[c].failed = FailedCount(c)
            /\ result[c].downloaded = Len(outcomes[c]) - FailedCount(c)
            /\ cacheFile = [state |-> "written", data |-> localCache[c]])

\* the record of task j of c's plan in the in-memory cache has the
\* syncStatus of the outcome b
Folded(cache, task, b) ==
  \E k \in 1..Len(cache[task.category]) :
    /\ cache[task.category][k].file = task.relativePath
    /\ cache[task.category][k].syncStatus = IF b THEN "success" ELSE "failed"

\* C12: downloads are sequential. While a download is in flight it is the
\* download of task idx[c], every earlier task has returned (there are
\* idx[c] - 1 outcomes) and every earlier task has a record in the in-memory
\* cache; and the step that starts the download of task i + 1 is the step in
\* which the download of task i returns, with its outcome folded into the
\* in-memory cache and the status event of task i + 1 sent after it.
C12_Sequential ==
  /\ [](\A c \in Calls : InDownload(c) =>
          /\ idx[c] = Len(outcomes[c]) + 1
          /\ idx[c] <= Len(toDownload[c])
          /\ \A j \in 1..Len(outcomes[c]) :
               \E k \in 1..Len(localCache[c][toDownload[c][j].category]) :
                 localCache[c][toDownload[c][j].category][k].file
                   = toDownload[c][j].relativePath)
  /\ [][\A c \in Calls :
          (InDownload(c) /\ idx'[c] # idx[c] /\ hpc'[c] = "download") =>
             /\ idx'[c] = idx[c] + 1
             /\ Len(outcomes'[c]) = idx[c]
             /\ SubSeq(outcomes'[c], 1, idx[c] - 1) = outcomes[c]
             /\ Folded(localCache'[c], toDownload[c][idx[c]],
                       outcomes'[c][idx[c]])
             /\ events'[Len(events')]
                  = statusEvent(Len(toDownload[c]), idx[c] + 1,
                                Str(toDownload[c][idx[c] + 1].name))
       ]_vars

\* the second download of a plan is in flight after the first succeeded
C12_Witness ==
  \E c \in Calls :
    /\ hpc[c] = "download"
    /\ idx[c] = 2
    /\ outcomes[c] = <<TRUE>>
    /\ toDownload[c][1].relativePath # toDownload[c][2].relativePath
    /\ Folded(localCache[c], toDownload[c][1], TRUE)

\* The timestamp an entry is compared with: remoteModified, or date when
\* the record has no remoteModified; emptyIsAbsent tells whether an empty
\* remoteModified counts as none.
Reference(doc, emptyIsAbsent) ==
  IF doc.remoteModified = UNDEF THEN doc.date
  ELSE IF emptyIsAbsent /\ doc.remoteModified = "" THEN doc.date
  ELSE doc.remoteModified

\* both are dates and a is later than b
StrictlyNewer(a, b) ==
  /\ DateParse(a) \in Instants
  /\ DateParse(b) \in Instants
  /\ DateParse(a) > DateParse(b)

\* the rules, in order, for one manifest entry against the records of its
\* own category: the reason it is included with, "none" when it is excluded
Decision(file, docs, category, emptyIsAbsent) ==
  LET S == {k \in 1..Len(docs) :
              docs[k].file = category \o "/" \o Str(file.name)}
  IN IF S = {} THEN "new"
     ELSE IF \E k \in S : docs[k].syncStatus = "failed" THEN "retry"
     ELSE IF \E k \in S :
               StrictlyNewer(file.modified, Reference(docs[k], emptyIsAbsent))
     THEN "updated"
     ELSE "none"

\* the plan of c is what the rules decide for every entry of its manifest
DecidedBy(c, emptyIsAbsent) ==
  /\ \A category \in Categories :
       \A i \in 1..Len(manifest[c][category]) :
         LET file == manifest[c][category][i]
             d == Decision(file, localCache[c][category], category,
                           emptyIsAbsent)
         IN IF d = "none"
            THEN \A reason \in {"new", "retry", "updated"} :
                   ~TaskFor(toDownload[c], category, file, reason)
            ELSE /\ TaskFor(toDownload[c], category, file, d)
                 /\ \A reason \in {"new", "retry", "updated"} \ {d} :
                      ~TaskFor(toDownload[c], category, file, reason)
  /\ Len(toDownload[c])
       = Cardinality(UNION {
           {<<category, i>> : i \in {i \in 1..Len(manifest[c][category]) :
               Decision(manifest[c][category][i], localCache[c][category],
                        category, emptyIsAbsent) # "none"}}
           : category \in Categories})

\* C13 as claimed: every manifest entry is decided by the rules new, retry,
\* updated, excluded, in this order, from the records of its own category,
\* the entry's modified being compared with the record's remoteModified, and
\* with its date only when the record has no remoteModified.
C13_DecisionAsClaimed ==
  \A c \in Calls : Planned(c) => DecidedBy(c, FALSE)

\* C13, amended: the same rules, with the record's date taking the place of
\* remoteModified also when remoteModified is the empty string.
C13_Decision ==
  \A c \in Calls : Planned(c) => DecidedBy(c, TRUE)

\* an entry is planned as updated against the date of a record whose
\* remoteModified is empty, and another entry is excluded
C13_Witness ==
  \E c \in Calls :
    /\ Planned(c)
    /\ Len(manifest[c].gcf) = 2
    /\ Len(toDownload[c]) = 1
    /\ toDownload[c][1].reason = "updated"
    /\ \E k \in 1..Len(localCache[c].gcf) :
         /\ localCache[c].gcf[k].file = toDownload[c][1].relativePath
         /\ localCache[c].gcf[k].remoteModified = ""
         /\ localCache[c].gcf[k].syncStatus = "success"

\* the entries of a manifest, those of gcf before those of policy
Entries(m) ==
  [i \in 1..Len(m.gcf) |->
     [category |-> "gcf", name |-> m.gcf[i].name,
      modified |-> m.gcf[i].modified, size |-> m.gcf[i].size]]
  \o [i \in 1..Len(m.policy) |->
     [category |-> "policy", name |-> m.policy[i].name,
      modified |-> m.policy[i].modified, size |-> m.policy[i].size]]

\* the manifest entries the tasks of a plan were made from
EntriesOf(plan) ==
  [j \in 1..Len(plan) |->
     [category |-> plan[j].category, name |-> plan[j].name,
      modified |-> plan[j].modified, size |-> plan[j].size]]

\* a is b with some of its elements left out
RECURSIVE IsSubsequence(_, _)
IsSubsequence(a, b) ==
  IF a = <<>> THEN TRUE
  ELSE IF b = <<>> THEN FALSE
  ELSE IF Head(a) = Head(b) THEN IsSubsequence(Tail(a), Tail(b))
  ELSE IsSubsequence(a, Tail(b))

\* the status events sent for tasks, in the order they were sent
TaskStatusEvents ==
  SelectSeq(events, LAMBDA e : e.channel = "sync-status" /\ e.current > 0)

\* C14: the plan is a subsequence of the manifest's gcf entries followed by
\* its policy entries, and the loop attempts the tasks in the plan's order:
\* the downloads started so far are those of tasks 1, 2, ... up to the one
\* in flight.
C14_ManifestOrder ==
  \A c \in Calls :
    /\ Planned(c) =>
         IsSubsequence(EntriesOf(toDownload[c]), Entries(manifest[c]))
    /\ hpc[c] \in {"download", "saving", "saved", "write", "writing",
                "persisted"} =>
         LET n == IF InDownload(c) THEN idx[c] ELSE Len(toDownload[c])
         IN TaskStatusEvents =
              [j \in 1..n |-> statusEvent(Len(toDownload[c]), j,
                                          Str(toDownload[c][j].name))]

\* a gcf and a policy file are planned and the policy file, the second
\* task, is being downloaded
C14_Witness ==
  \E c \in Calls :
    /\ hpc[c] = "download"
    /\ idx[c] = 2
    /\ toDownload[c][1].category = "gcf"
    /\ toDownload[c][2].category = "policy"
    /\ Len(TaskStatusEvents) = 2

\* The handler of c found nothing to download and has returned.
NothingToDo(c) ==
  /\ hpc[c] = "returned"
  /\ result[c].stage = "complete"
  /\ toDownload[c] = <<>>

\* C15: with an empty plan the handler returns success true with
\* downloaded = 0, failed = 0 and total = 0, having attempted no download,
\* and does not write the cache file: the step that finds the plan empty
\* leaves the file alone, and so does every step until the result is taken,
\* so the file still holds the records and the lastSync that were loaded.
C15_EmptyPlan ==
  /\ [](\A c \in Calls : NothingToDo(c) =>
          /\ result[c].success = TRUE
          /\ result[c].downloaded = 0
          /\ result[c].failed = 0
          /\ result[c].total = 0
          /\ outcomes[c] = <<>>
          /\ readCache(cacheFile) = localCache[c])
  /\ [][\A c \in Calls :
          /\ (Compares(c)
                /\ compareFiles(manifest'[c], readCache(Taken(c))) = <<>>) =>
               /\ NothingToDo(c)'
               /\ cacheFile' = cacheFile
          /\ NothingToDo(c) => cacheFile' = cacheFile
       ]_vars

\* a sync over a cache that an earlier sync wrote finds the files of the
\* manifest up to date
C15_Witness ==
  \E c \in Calls :
    /\ NothingToDo(c)
    /\ manifest[c].gcf # <<>>
    /\ cacheFile.state = "written"
    /\ cacheFile.data.lastSync # UNDEF
    /\ Len(cacheFile.data.gcf) > 0

\* C16: the handler reads the cache file once and writes it at most once.
\* It comes to the reading only from the fetch of the manifest, takes the
\* text of the file in that one step and drops it when it resumes; without a
\* cache file it reads nothing. It comes to the write only from the loop;
\* the file changes only in the two steps of the
\* one writeFile, which starts when every task of a non-empty plan has been
\* resolved and ends with the file holding the in-memory cache; after it the
\* handler only reports completion and hands over its result. lastSync is
\* part of the file, so it changes in no other step: never in a sync that
\* returned at the manifest stage or before its loop finished.
C16_ReadOnceWrittenOnce ==
  [][/\ cacheFile' # cacheFile =>
          \E c \in Calls :
            /\ toDownload[c] # <<>>
            /\ Len(outcomes[c]) = Len(toDownload[c])
            /\ \/ /\ hpc[c] = "write"
                  /\ hpc'[c] = "writing"
                  /\ cacheFile'.state = "truncated"
               \/ /\ hpc[c] = "writing"
                  /\ hpc'[c] = "persisted"
                  /\ cacheFile' = [state |-> "written", data |-> localCache[c]]
                  /\ localCache[c].lastSync # UNDEF
     /\ \A c \in Calls :
          /\ (hpc'[c] = "fetch" /\ hpc[c] # "fetch") => hpc[c] = "none"
          /\ (hpc'[c] = "read" /\ hpc[c] # "read") => hpc[c] = "fetch"
          /\ (hpc'[c] = "cache" /\ hpc[c] # "cache") => hpc[c] = "read"
          /\ cacheData'[c] # cacheData[c] =>
               \/ hpc[c] = "read" /\ cacheData'[c] = cacheFile
               \/ hpc[c] = "cache" /\ cacheData'[c] = NoData
          /\ (hpc'[c] = "download" /\ hpc[c] # "download") =>
               \/ hpc[c] \in {"cache", "saving", "saved"}
               \/ hpc[c] = "fetch" /\ ~existsSync(cacheFile)
          /\ (hpc'[c] = "saving" /\ hpc[c] # "saving") => hpc[c] = "download"
          /\ (hpc'[c] = "saved" /\ hpc[c] # "saved") => hpc[c] = "saving"
          /\ (hpc'[c] = "write" /\ hpc[c] # "write") => InDownload(c)
          /\ (hpc'[c] = "writing" /\ hpc[c] # "writing") => hpc[c] = "write"
          /\ (hpc'[c] = "persisted" /\ hpc[c] # "persisted") =>
               hpc[c] = "writing"
          /\ hpc[c] = "persisted" =>
               /\ hpc'[c] \in {"persisted", "returned"}
               /\ hpc'[c] = "returned" => result'[c].stage = "complete"
          /\ hpc[c] = "returned" => hpc'[c] \in {"returned", "none"}
          /\ localCache'[c].lastSync # localCache[c].lastSync =>
               \/ Compares(c)
               \/ InDownload(c) /\ hpc'[c] = "write"
               \/ hpc[c] = "returned" /\ hpc'[c] = "none"
    ]_vars

\* a sync with a failed and a successful download has written the cache
\* over the one an earlier sync wrote, with a later lastSync
C16_Witness ==
  \E c \in Calls :
    /\ hpc[c] = "returned"
    /\ result[c].stage = "complete"
    /\ Len(outcomes[c]) = 2
    /\ result[c].failed = 1
    /\ cacheFile.state = "written"
    /\ cacheFile.data.lastSync = toISOString(MaxNow)

\* the file is missing or its content is not a cache
Unusable(file) == file.state # "written"

\* C17: a missing or corrupt cache file is treated as the empty cache. The
\* step in which the handler compares, having found no file or read such a
\* file, leaves it with empty gcf and policy arrays and a plan that has every manifest entry as
\* 'new'; it does not end the sync in the error state and sends no error
\* event.
C17_CorruptCacheIsEmpty ==
  [][\A c \in Calls :
       (Compares(c) /\ Unusable(Taken(c))) =>
          /\ localCache'[c].gcf = <<>>
          /\ localCache'[c].policy = <<>>
          /\ AllNew(toDownload'[c], manifest'[c])
          /\ hpc'[c] \in {"download", "returned"}
          /\ hpc'[c] = "returned" => result'[c] = upToDate
          /\ \A k \in 1..Len(events') : events'[k].channel # "sync-error"
    ]_vars

\* C18: a failed download changes, of the record that has the task's
\* relative path in the task's category, the syncStatus only, to 'failed',
\* the record keeping its other fields and its position; when there is no
\* such record, one placeholder is appended, with syncStatus 'failed', the
\* task's size, the task's modified value as remoteModified and the day of
\* that value as date. Nothing else of the in-memory cache changes.
C18_FailureRecorded ==
  [][\A c \in Calls : FailureStep(c) =>
          LET task == toDownload[c][idx[c]]
              old == localCache[c][task.category]
              new == localCache'[c][task.category]
              S == {k \in 1..Len(old) : old[k].file = task.relativePath}
          IN /\ \A other \in Categories \ {task.category} :
                  localCache'[c][other] = localCache[c][other]
             /\ IF S # {}
                THEN /\ Len(new) = Len(old)
                     /\ \A i \in 1..Len(old) :
                          new[i] = IF i \in S
                                   THEN [old[i] EXCEPT !.syncStatus = "failed"]
                                   ELSE old[i]
                ELSE /\ Len(new) = Len(old) + 1
                     /\ SubSeq(new, 1, Len(old)) = old
                     /\ new[Len(new)].file = task.relativePath
                     /\ new[Len(new)].syncStatus = "failed"
                     /\ new[Len(new)].size = formatFileSize(task.size)
                     /\ new[Len(new)].remoteModified = task.modified
                     /\ \E t \in Instants :
                          /\ task.modified = ManifestStamp(t)
                          /\ new[Len(new)].date = DayString(t \div 2)
    ]_vars

\* C19: an exception raised after the manifest was fetched makes the
\* handler return success false with stage 'error' and the exception's
\* message, after one sync-error event and no sync-complete event, and
\* leaves the cache file as it was before the sync: the handler returns the
\* error without having opened the file for writing, the only way it changes
\* the file.
C19_ExceptionLeavesCache ==
  /\ [](\A c \in Calls :
          (hpc[c] = "returned" /\ result[c].stage = "error") =>
            /\ result[c].success = FALSE
            /\ result[c].message = "Sync failed: " \o result[c].error
            /\ events # <<>>
            /\ events[Len(events)] = errorEvent(result[c].error)
            /\ Cardinality({k \in 1..Len(events) :
                              events[k].channel = "sync-error"}) = 1
            /\ \A k \in 1..Len(events) :
                 events[k].channel # "sync-complete")
  /\ [][\A c \in Calls :
          (hpc[c] # "returned" /\ hpc'[c] = "returned"
             /\ result'[c].stage = "error") =>
            /\ cacheFile' = cacheFile
            /\ hpc[c] # "writing"
       ]_vars

\* C20: a failure to write the cache file is not fatal. A handler that has
\* resolved its tasks and called writeFile returns, whether or not the write
\* succeeds, the completed result with its counts, and not the error state.
C20_WriteFailureNotFatal ==
  [][\A c \in Calls :
       (hpc[c] \in {"write", "writing", "persisted"}
          /\ hpc'[c] = "returned") =>
          /\ result'[c].stage = "complete"
          /\ result'[c].success = TRUE
          /\ result'[c].downloaded = downloaded[c]
          /\ result'[c].failed = failed[c]
          /\ result'[c].total = Len(toDownload[c])
    ]_vars

\* the positions of the events of a channel in the events sent
EventsOn(channel) == {k \in 1..Len(events) : events[k].channel = channel}

\* C21: a sync that returns stage 'complete' has sent exactly one
\* sync-complete event, whose downloaded, failed and total are those of the
\* returned result.
C21_OneCompletionEvent ==
  \A c \in Calls : (hpc[c] = "returned" /\ result[c].stage = "complete") =>
    /\ Cardinality(EventsOn("sync-complete")) = 1
    /\ \A k \in EventsOn("sync-complete") :
         /\ events[k].downloaded = result[c].downloaded
         /\ events[k].failed = result[c].failed
         /\ events[k].total = result[c].total

\* the sync-status events sent, in the order they were sent
StatusEvents == SelectSeq(events, LAMBDA e : e.channel = "sync-status")

\* the handler of c is in or past its loop
InLoop(c) ==
  \/ hpc[c] \in {"download", "saving", "saved", "write", "writing",
                "persisted"}
  \/ hpc[c] = "returned" /\ toDownload[c] # <<>>

\* the number of tasks of c's plan whose download has been started
Started(c) == IF InDownload(c) THEN idx[c] ELSE Len(outcomes[c])

\* the event is the status event of task j of c's plan
IsStatusOf(e, c, j) ==
  /\ e.channel = "sync-status"
  /\ e.stage = "downloading"
  /\ e.total = Len(toDownload[c])
  /\ e.current = j
  /\ 1 <= e.current /\ e.current <= e.total
  /\ e.file = Str(toDownload[c][j].name)
  /\ e.percent = 0

NotInFlight(c) == hpc[c] = "none"

\* C23: the events of a sync are ordered, and no event of another sync is
\* among them. While a sync is in or past its loop no other handler is in
\* flight, and every event is sent while exactly one handler runs. The
\* first event is a status event; every progress event names the file of a
\* task whose status event was sent before it, with nothing but progress
\* events in between, so it comes before the status event of the next task;
\* the completion event is the last event; and every status event carries
\* the length of this sync's plan and, for a task, this plan's file name.
C23_EventOrder ==
  /\ [](\A c \in Calls : InLoop(c) =>
         /\ \A d \in Calls \ {c} : NotInFlight(d)
         /\ events[1].channel = "sync-status"
         /\ \A k \in EventsOn("sync-progress") :
              \E j \in 1..Started(c) : \E st \in 1..(k - 1) :
                /\ IsStatusOf(events[st], c, j)
                /\ events[k].file = Str(toDownload[c][j].name)
                /\ \A m \in (st + 1)..k : events[m].channel = "sync-progress"
         /\ \A k \in EventsOn("sync-complete") :
              /\ k = Len(events)
              /\ Len(StatusEvents) = Len(toDownload[c]) + 1
         /\ \A k \in EventsOn("sync-status") :
              /\ events[k].total = Len(toDownload[c])
              /\ events[k].current > 0 =>
                   IsStatusOf(events[k], c, events[k].current))
  /\ [][Len(events') > Len(events) =>
         Cardinality({c \in Calls : ~NotInFlight(c)}) = 1]_vars

\* two downloads with two chunks each have completed, and status, progress
\* and completion events were sent, while the user asked for another sync,
\* which was not started
C23_Witness ==
  \E c \in Calls :
    /\ hpc[c] = "returned"
    /\ result[c].stage = "complete"
    /\ outcomes[c] = <<TRUE, TRUE>>
    /\ Cardinality(EventsOn("sync-progress")) = 4
    /\ events[Len(events)].channel = "sync-complete"
    /\ ignored
    /\ \E d \in Calls \ {c} : rpc[d] = "load"

\* C24: every percentage passed to onProgress, which the handler forwards
\* in a progress event, is an integer from 0 to 100.
C24_PercentInRange ==
  \A k \in EventsOn("sync-progress") : events[k].percent \in 0..100

\* without a usable content-length no progress is reported, whatever the
\* chunks
C24_NoTotalNoProgress ==
  \A r \in ProgressResponses : r.contentLength = 0 => progressOf(r) = <<>>

\* C25: compareFiles has no side effects. For the manifest that was
\* fetched and the cache that was read, the call leaves the manifest and the
\* cache, its gcf and policy arrays and every record in them, as they were
\* given to it; and across the step that makes the call the handler holds
\* that manifest and that cache, and the cache file is untouched.
C25_CompareReadOnly ==
  /\ [](\A c \in Calls : (hpc[c] = "cache" /\ ~parsesToNull(cacheData[c])) =>
         LET cache == readCache(cacheData[c])
             call == compareFilesCall(manifest[c], cache)
         IN /\ call.manifest = manifest[c]
            /\ call.localCache = cache
            /\ \A category \in Categories :
                 /\ Len(call.localCache[category]) = Len(cache[category])
                 /\ \A k \in 1..Len(cache[category]) :
                      call.localCache[category][k] = cache[category][k])
  /\ [][\A c \in Calls :
          (Compares(c) /\ ~parsesToNull(Taken(c))) =>
            /\ localCache'[c] = readCache(Taken(c))
            /\ hpc[c] = "cache" => manifest'[c] = manifest[c]
            /\ cacheFile' = cacheFile]_vars

\* a cache with a record was compared with a manifest that lists a newer
\* version of its file
C25_Witness ==
  \E c \in Calls :
    /\ hpc[c] = "download"
    /\ idx[c] = 1
    /\ outcomes[c] = <<>>
    /\ toDownload[c][1].reason = "updated"
    /\ HasRecord(localCache[c], toDownload[c][1].category, toDownload[c][1].name)

Accepted(response) ==
  /\ response.error = ""
  /\ response.ok
  /\ response.parses
  /\ response.type = "object"
  /\ response.gcfIsArray
  /\ response.policyIsArray

\* C26: fetchManifest succeeds only for a response with a success status
\* whose body parses to an object with gcf and policy arrays, and then
\* returns that manifest unchanged; for every other response it returns a
\* failure value with a message, a non-array gcf and a non-array policy have
\* distinct messages, and gcf is checked first. What the handler holds after
\* the fetch is the outcome of some response under this rule.
C26_FetchManifest ==
  /\ \A r \in ManifestResponses :
       LET res == fetchManifest(r)
           validated == r.error = "" /\ r.ok /\ r.parses /\ r.type = "object"
       IN /\ res.success <=> Accepted(r)
          /\ res.success => res.manifest = [gcf |-> r.gcf, policy |-> r.policy]
          /\ ~res.success => res.error # ""
          /\ (validated /\ ~r.gcfIsArray) =>
               res.error = "Invalid manifest format: gcf is not an array"
          /\ (validated /\ r.gcfIsArray /\ ~r.policyIsArray) =>
               res.error = "Invalid manifest format: policy is not an array"
  /\ \A c \in Calls :
       /\ (hpc[c] = "returned" /\ result[c].stage = "fetch-manifest") =>
            \E r \in ManifestResponses :
              /\ ~Accepted(r)
              /\ result[c] = manifestFailure(fetchManifest(r).error)
       /\ hpc[c] \in {"read", "cache", "download"} =>
            \E r \in ManifestResponses :
              /\ Accepted(r)
              /\ manifest[c] = [gcf |-> r.gcf, policy |-> r.policy]

\* the handler returned the failure of a manifest whose gcf is not an array
C26_Witness ==
  \E c \in Calls :
    /\ hpc[c] = "returned"
    /\ result[c].stage = "fetch-manifest"
    /\ result[c].error = "Invalid manifest format: gcf is not an array"

\* the 'sync-remote-documents' handler of call chain c is between its start
\* and its return
Running(c) == hpc[c] \notin {"none", "returned"}

\* the step is one of a handler other than the sync handler, invoked by
\* call chain c, that reads the cache file or writes to it
Accesses(c) ==
  \/ rpc[c] \in {"load", "reload"} /\ rpc'[c] # rpc[c]
  \/ scan[c] = "write" /\ scan'[c] = "writing"
  \/ scan[c] = "writing" /\ scan'[c] = "written"

\* C27: while a sync is in flight nothing but its handler reads or writes
\* the cache file: 'get-cached-documents' never reads the file, and
\* 'scan-documents' never writes it, while a sync handler is running.
C27_CacheIsolated ==
  [][\A c \in Calls :
       Accesses(c) => ~ \E d \in Calls : Running(d)]_vars

\* the plan of the next sync, against the manifest of c and the cache file
\* as it is
NextPlan(c) == compareFiles(manifest[c], readCache(cacheFile))

FailedRecord(category, name) ==
  \E k \in 1..Len(readCache(cacheFile)[category]) :
    /\ readCache(cacheFile)[category][k].file = RelativePath(category, name)
    /\ readCache(cacheFile)[category][k].syncStatus = "failed"

RetriesOnlyFailed(c) ==
  /\ \A j \in 1..Len(NextPlan(c)) :
       /\ NextPlan(c)[j].reason = "retry"
       /\ FailedRecord(NextPlan(c)[j].category, NextPlan(c)[j].name)
  /\ \A category \in Categories : \A i \in 1..Len(manifest[c][category]) :
       FailedRecord(category, manifest[c][category][i].name) =>
         TaskFor(NextPlan(c), category, manifest[c][category][i], "retry")
  /\ \A i \in 1..Len(outcomes[c]) : outcomes[c][i] =>
       \A j \in 1..Len(NextPlan(c)) :
         NextPlan(c)[j].relativePath # toDownload[c][i].relativePath

\* C28: after a sync in which some files failed, the plan of the next sync
\* against the unchanged manifest consists exactly of the files whose record
\* is 'failed', each with reason 'retry', and has no file that the sync
\* downloaded successfully.
C28_RetryOnlyFailed ==
  \A c \in Calls : (Persisted(c) /\ result[c].failed > 0) => RetriesOnlyFailed(c)

\* the same for manifests that list no file twice
C28_WhenListedOnce ==
  \A c \in Calls :
    (Persisted(c) /\ result[c].failed > 0 /\ ListedOnce(manifest[c])) =>
      RetriesOnlyFailed(c)

\* the summary the outcome of the sync of c calls for
SummaryByOutcome(c) ==
  IF result[c].stage = "fetch-manifest"
  THEN /\ ~result[c].success
       /\ manifest[c] = NoManifest
       /\ outcomes[c] = <<>>
       /\ \E r \in BadManifestResponses :
            result[c].message =
              "Failed to fetch manifest: " \o fetchManifest(r).error
  ELSE IF toDownload[c] = <<>>
  THEN /\ result[c].success
       /\ result[c].message = "All documents are up to date"
  ELSE IF failed[c] = 0
  THEN /\ result[c].success
       /\ result[c].message =
            "Successfully synced " \o ToString(downloaded[c]) \o " files"
  ELSE /\ result[c].success
       /\ result[c].message =
            "Synced " \o ToString(downloaded[c]) \o " files, "
              \o ToString(failed[c]) \o " failed. Click refresh to retry."

\* C29: the result a sync returns carries the summary of its outcome: the
\* manifest failure with success false, 'All documents are up to date' for
\* an empty plan, the count of synced files when every download succeeded,
\* and the failed count with the advice to retry when some failed, success
\* being true in the last three.
C29_OneSummary ==
  \A c \in Calls : hpc[c] = "returned" => SummaryByOutcome(c)

\* the same for the syncs that did not end in the handler's catch
C29_UnlessCaught ==
  \A c \in Calls :
    (hpc[c] = "returned" /\ result[c].stage # "error") => SummaryByOutcome(c)

OneTaskPerPath(plan) ==
  \A i, j \in 1..Len(plan) :
    plan[i].relativePath = plan[j].relativePath => i = j

\* C30: within one sync the plan has at most one task per relative path, so
\* no file is downloaded more than once.
C30_OneTaskPerPath ==
  \A c \in Calls : OneTaskPerPath(toDownload[c])

\* the same for manifests that list no file twice
C30_WhenListedOnce ==
  \A c \in Calls : ListedOnce(manifest[c]) => OneTaskPerPath(toDownload[c])

\* the manifest lists, in this category, the file with this relative path
Listed(m, category, file) ==
  \E i \in 1..Len(m[category]) :
    RelativePath(category, m[category][i].name) = file

\* record k of the category is marked 'failed' and the manifest omits its
\* file
OrphanAt(cache, m, category, k) ==
  /\ cache[category][k].syncStatus = "failed"
  /\ ~Listed(m, category, cache[category][k].file)

\* every such record of before is in after, unchanged and at its position
OrphansKept(before, after, m) ==
  \A category \in Categories : \A k \in 1..Len(before[category]) :
    OrphanAt(before, m, category, k) =>
      /\ k <= Len(after[category])
      /\ after[category][k] = before[category][k]

\* the plan has no task for such a record
OrphansUnplanned(cache, plan, m) ==
  \A category \in Categories : \A k \in 1..Len(cache[category]) :
    OrphanAt(cache, m, category, k) =>
      \A j \in 1..Len(plan) :
        plan[j].relativePath # cache[category][k].file

\* what the sync does in memory and when its write completes
OrphansKeptByHandler(c) ==
  /\ (Compares(c) /\ hpc'[c] = "download") =>
       /\ OrphansUnplanned(readCache(Taken(c)), toDownload'[c], manifest'[c])
       /\ OrphansKept(readCache(Taken(c)), localCache'[c], manifest'[c])
  /\ InDownload(c) =>
       OrphansKept(localCache[c], localCache'[c], manifest[c])
  /\ (hpc[c] = "writing" /\ hpc'[c] = "persisted") =>
       OrphansKept(localCache[c], readCache(cacheFile'), manifest[c])

\* the step ends the handler of c, which had a plan
EndsSync(c) ==
  /\ hpc[c] \in {"download", "saving", "saved", "write", "writing",
                 "persisted"}
  /\ hpc'[c] = "returned"

\* C31: a record with syncStatus 'failed' whose file the manifest omits is
\* in no plan, and no sync modifies or removes it: the comparison plans no
\* task for it, every turn of the loop leaves it in the handler's cache as it
\* is and where it is, and when the sync ends, however it ends, the cache
\* file holds it as it is and where it is.
C31_OrphanKept ==
  [][\A c \in Calls :
       /\ OrphansKeptByHandler(c)
       /\ EndsSync(c) =>
            OrphansKept(localCache[c], readCache(cacheFile'), manifest[c])]_vars

\* the same for what the sync does in memory and for the write that
\* completes
C31_UnlessAborted ==
  [][\A c \in Calls : OrphansKeptByHandler(c)]_vars

\* the number of the resolved tasks of c with this outcome
Resolved(c, outcome) ==
  Cardinality({i \in 1..Len(outcomes[c]) : outcomes[c][i] = outcome})

\* C32: after k tasks have been resolved, downloaded + failed = k, each
\* counting the tasks of its outcome; and when the sync completes,
\* downloaded + failed = total = the length of the plan, in the result and
\* in the completion event.
C32_Counts ==
  \A c \in Calls :
    /\ InLoop(c) =>
         /\ downloaded[c] = Resolved(c, TRUE)
         /\ failed[c] = Resolved(c, FALSE)
         /\ downloaded[c] + failed[c] = Len(outcomes[c])
         /\ InDownload(c) => Len(outcomes[c]) = idx[c] - 1
    /\ (hpc[c] = "returned" /\ result[c].stage = "complete") =>
         /\ result[c].downloaded + result[c].failed = result[c].total
         /\ result[c].total = Len(toDownload[c])
         /\ result[c].downloaded = downloaded[c]
         /\ result[c].failed = failed[c]
         /\ \A k \in EventsOn("sync-complete") :
              /\ events[k].downloaded + events[k].failed = events[k].total
              /\ events[k].total = Len(toDownload[c])
              /\ events[k].downloaded = downloaded[c]

\* a sync of two tasks completed with one download and one failure
C32_Witness ==
  \E c \in Calls :
    /\ hpc[c] = "returned"
    /\ result[c].stage = "complete"
    /\ outcomes[c] = <<TRUE, FALSE>>
    /\ EventsOn("sync-complete") # {}

HasTask(plan, file) == \E j \in 1..Len(plan) : plan[j].relativePath = file

\* after keeps every record of before at its position, as it is when the
\* plan has no task for its file and with its relative path otherwise
FrameKept(before, after, plan) ==
  \A category \in Categories : \A k \in 1..Len(before[category]) :
    /\ k <= Len(after[category])
    /\ after[category][k].file = before[category][k].file
    /\ ~HasTask(plan, before[category][k].file) =>
         after[category][k] = before[category][k]

\* what the sync does in memory and when its write completes
FrameKeptByHandler(c) ==
  /\ (Compares(c) /\ hpc'[c] = "download") =>
       FrameKept(readCache(Taken(c)), localCache'[c], toDownload'[c])
  /\ InDownload(c) =>
       FrameKept(localCache[c], localCache'[c], toDownload[c])
  /\ (hpc[c] = "writing" /\ hpc'[c] = "persisted") =>
       FrameKept(localCache[c], readCache(cacheFile'), toDownload[c])

\* the file had a record before the sync that has this plan: the plan has no
\* task for it, or a task that updates or retries it
RecordedBefore(plan, file) ==
  \/ ~HasTask(plan, file)
  \/ \E j \in 1..Len(plan) :
       plan[j].relativePath = file /\ plan[j].reason # "new"

\* after holds, at its position, every record of the handler's cache whose
\* file had a record before the sync: as it is when the plan has no task for
\* its file and with its relative path otherwise
FrameKeptAtEnd(cache, after, plan) ==
  \A category \in Categories : \A k \in 1..Len(cache[category]) :
    RecordedBefore(plan, cache[category][k].file) =>
      /\ k <= Len(after[category])
      /\ after[category][k].file = cache[category][k].file
      /\ ~HasTask(plan, cache[category][k].file) =>
           after[category][k] = cache[category][k]

\* C33: a sync removes no record and leaves the records of files outside
\* its plan alone: the cache it compares is the one it read, every turn of
\* the loop keeps every relative path at its position and every record
\* without a task unchanged, and when the sync ends, however it ends, the
\* cache file holds every relative path it held before the sync and, as it
\* was and where it was, every record without a task.
C33_FrameKept ==
  [][\A c \in Calls :
       /\ FrameKeptByHandler(c)
       /\ EndsSync(c) =>
            FrameKeptAtEnd(localCache[c], readCache(cacheFile'),
                           toDownload[c])]_vars

\* the same for what the sync does in memory and for the write that
\* completes
C33_UnlessAborted ==
  [][\A c \in Calls : FrameKeptByHandler(c)]_vars

\* the last task of the plan of c for the relative path of task j
LastAttempt(c, j) ==
  CHOOSE i \in 1..Len(toDownload[c]) :
    /\ toDownload[c][i].relativePath = toDownload[c][j].relativePath
    /\ \A h \in 1..Len(toDownload[c]) :
         toDownload[c][h].relativePath = toDownload[c][j].relativePath
           => h <= i

RecordedOnce(c) ==
  \A j \in 1..Len(toDownload[c]) :
    LET task == toDownload[c][j]
        docs == localDocs(readCache(cacheFile), task.category)
        S == {k \in 1..Len(docs) : docs[k].file = task.relativePath}
    IN /\ Cardinality(S) = 1
       /\ \A k \in S :
            docs[k].syncStatus =
              IF outcomes[c][LastAttempt(c, j)] THEN "success" ELSE "failed"

\* C34: when a sync has persisted the cache, every task of its plan has
\* exactly one record for its relative path in its category, marked
\* 'success' when the last download of that path in the sync succeeded and
\* 'failed' when it failed, whatever JSON the cache file held.
C34_RecordedOnce ==
  \A c \in Calls : Persisted(c) => RecordedOnce(c)

\* the same for the cache files the application writes
C34_OwnCaches ==
  \A c \in Calls :
    (Persisted(c) /\ cacheFile.state = "written"
       /\ DOMAIN cacheFile.data = DOMAIN EmptyCache
       /\ UniqueFiles(cacheFile.data.gcf)
       /\ UniqueFiles(cacheFile.data.policy)) => RecordedOnce(c)

\* a step of a period in which the server's manifest is m, every download
\* succeeds and every cache write succeeds
Favourable(m) ==
  \A c \in Calls :
    /\ (hpc[c] = "fetch" /\ hpc'[c] # "fetch") =>
         (result'[c].stage # "fetch-manifest" /\ manifest'[c] = m)
    /\ Len(outcomes'[c]) > Len(outcomes[c]) =>
         outcomes'[c][Len(outcomes'[c])]
    /\ (hpc[c] # "returned" /\ hpc'[c] = "returned") =>
         result'[c].stage # "error"

\* C35: with a fixed manifest, if from some point on every download and
\* every cache write succeeds, repeated syncs reach a point from which the
\* plan against the persisted cache is empty for good and the cache file
\* changes no more.
C35_Convergence ==
  \A m \in ConvergeManifests :
    <>[][Favourable(m)]_vars =>
      /\ <>[](compareFiles(m, readCache(cacheFile)) = <<>>)
      /\ <>[][cacheFile' = cacheFile]_vars

\* a sync found nothing to download in a cache that an earlier sync wrote
\* after a failed download
C35_Witness ==
  \E c \in Calls :
    /\ hpc[c] = "returned"
    /\ result[c] = upToDate
    /\ manifest[c] \in ConvergeManifests
    /\ cacheFile.state = "written"
    /\ cacheFile.data.lastSync # UNDEF
    /\ \E k \in 1..Len(cacheFile.data.gcf) :
         cacheFile.data.gcf[k].syncStatus = "success"

\* no call chain is inside syncWithServer
SyncEnded == \A c \in Calls : rpc[c] \notin {"sync", "reload", "reloaded"}

\* C36: the renderer's flag is always released. Whenever isSyncing is set
\* it is cleared later, whatever the sync returns and also when the
\* invocation is rejected; the flag is set exactly while a call chain is
\* inside syncWithServer; and a refresh requested after the sync has ended is
\* not ignored.
C36_FlagReleased ==
  /\ isSyncing ~> ~isSyncing
  /\ [](isSyncing <=> ~SyncEnded)
  /\ [][SyncEnded => ~(~ignored /\ ignored')]_vars

\* a sync has written the cache and ended, and the flag is clear
C36_Witness ==
  /\ ~isSyncing
  /\ SyncEnded
  /\ cacheFile.state = "written"
  /\ cacheFile.data.lastSync # UNDEF

\* the documents of an answer of 'get-cached-documents'
DocumentsOf(reply) == [gcf |-> reply.gcf, policy |-> reply.policy]

\* the cache file held no record when the sync of d read it: every task is
\* for a new file and every record it holds has a task
StartedEmpty(d) ==
  /\ \A j \in 1..Len(toDownload[d]) : toDownload[d][j].reason = "new"
  /\ \A category \in Categories : \A k \in 1..Len(localCache[d][category]) :
       HasTask(toDownload[d], localCache[d][category][k].file)

\* Until the sync of d opens the file for writing the file is as it was
\* before the sync; from then on what a reader gets is the cache the sync
\* writes, or the file was empty before the sync as well.
ReadsWhole(d, reply) ==
  hpc[d] \in {"writing", "persisted"} =>
    \/ DocumentsOf(reply) = DocumentsOf(localCache[d])
    \/ DocumentsOf(reply) = NoDocuments /\ StartedEmpty(d)

\* C37: a reader of the cache file that runs during a sync gets the cache
\* as it was before the sync or as the sync finally writes it.
C37_ReadsWhole ==
  [][\A c \in Calls :
       (rpc[c] = "load" /\ rpc'[c] = "loaded") =>
         \A d \in Calls : Running(d) => ReadsWhole(d, cachedDocs'[c])]_vars

====
